---- MODULE Spec2Model ----
(***************************************************************************)
(* Model of the NumPy structured-array batch codec of aerospike-py         *)
(* (rust/src/numpy_support.rs): dtype parsing, value -> buffer writes,     *)
(* buffer -> value reads, the batch encoder batch_to_numpy_py and the      *)
(* batch decoder numpy_to_records.                                          *)
(*                                                                         *)
(* Memory is a sequence of bytes (0..255); offset k of the code is index   *)
(* k+1 of the sequence.  i64/u64/f64 values do not fit the model checker's *)
(* integers, so every fixed-width number is the sequence of its bytes in   *)
(* memory order (little-endian, the layout of the supported targets), and  *)
(* casts are modelled on the bit patterns.                                 *)
(***************************************************************************)
EXTENDS Integers, Sequences, FiniteSets, TLC

\* ------------------------------------------------------------------ bits

Byte == 0..255

\* n copies of x
Rep(x, n) == [k \in 1..n |-> x]

\* the 8 bits of a byte, most significant first
ByteBits(b) ==
    << (b \div 128) % 2, (b \div 64) % 2, (b \div 32) % 2, (b \div 16) % 2,
       (b \div 8) % 2, (b \div 4) % 2, (b \div 2) % 2, b % 2 >>

BitsByte(bs) ==
    128 * bs[1] + 64 * bs[2] + 32 * bs[3] + 16 * bs[4]
      + 8 * bs[5] + 4 * bs[6] + 2 * bs[7] + bs[8]

\* little-endian bytes -> bits of the number, most significant first
BytesToBits(bytes) ==
    [k \in 1..(8 * Len(bytes)) |->
        ByteBits(bytes[Len(bytes) - ((k - 1) \div 8)])[((k - 1) % 8) + 1]]

\* bits, most significant first (a multiple of 8) -> little-endian bytes
BitsToBytes(bs) ==
    [j \in 1..(Len(bs) \div 8) |->
        BitsByte(SubSeq(bs, Len(bs) - 8 * j + 1, Len(bs) - 8 * j + 8))]

RECURSIVE BitsToNat(_)
\* value of a short bit string (at most 30 bits)
BitsToNat(bs) ==
    IF bs = <<>> THEN 0
    ELSE 2 * BitsToNat(SubSeq(bs, 1, Len(bs) - 1)) + bs[Len(bs)]

RECURSIVE NatToBits(_, _)
\* the w low bits of n, most significant first
NatToBits(n, w) ==
    IF w = 0 THEN <<>> ELSE NatToBits(n \div 2, w - 1) \o <<n % 2>>

AllZero(bs) == \A k \in 1..Len(bs) : bs[k] = 0

NotBits(bs) == [k \in 1..Len(bs) |-> 1 - bs[k]]

\* bs + 1 modulo 2^Len(bs): the last 0 becomes 1, the 1s after it become 0
IncBits(bs) ==
    LET zs == {k \in 1..Len(bs) : bs[k] = 0}
        p  == IF zs = {} THEN 0 ELSE CHOOSE k \in zs : \A q \in zs : q <= k
    IN  [k \in 1..Len(bs) |-> IF k < p THEN bs[k] ELSE IF k = p THEN 1 ELSE 0]

\* two's-complement negation
NegBits(bs) == IncBits(NotBits(bs))

\* position of the first 1 bit, 0 when there is none
FirstOne(bs) ==
    IF AllZero(bs) THEN 0
    ELSE CHOOSE p \in 1..Len(bs) : bs[p] = 1 /\ \A q \in 1..(p - 1) : bs[q] = 0

\* bs[from..Len] padded with zeros on the right to exactly n bits
TakePad(bs, from, n) ==
    [k \in 1..n |-> IF from + k - 1 <= Len(bs) /\ from + k - 1 >= 1
                    THEN bs[from + k - 1] ELSE 0]

\* ------------------------------------------------------- integer casts

\* the i64 with value n, for n within the model checker's integers
I64(n) ==
    [k \in 1..8 |-> IF k <= 4 THEN (n \div (256 ^ (k - 1))) % 256
                    ELSE IF n < 0 THEN 255 ELSE 0]

\* `val as i8 / i16 / i32` and `val as u8 / u16 / u32`: keep the low w bytes
Narrow(bytes, w) == SubSeq(bytes, 1, w)

\* a widening that takes the signed integer for an unsigned one
SignExtend_unsigned(bytes) == bytes \o Rep(0, 8 - Len(bytes))

\* `x as i64` of a signed w-byte integer: sign extension
SignExtend(bytes) ==
    bytes \o Rep(IF bytes[Len(bytes)] >= 128 THEN 255 ELSE 0, 8 - Len(bytes))

\* a widening of an unsigned integer that saturates at i64::MAX
ZeroExtend_saturating(bytes) ==
    IF Len(bytes) = 8 /\ bytes[8] >= 128 THEN Rep(255, 7) \o <<127>>
    ELSE bytes \o Rep(0, 8 - Len(bytes))

\* `x as i64` of an unsigned w-byte integer: zero extension (u64: same bits)
ZeroExtend(bytes) == bytes \o Rep(0, 8 - Len(bytes))

\* --------------------------------------------------------- IEEE-754

\* A float unpacked: cls is "zero", "fin", "inf" or "nan"; a finite value is
\* (-1)^sign * 1.sig[2..] * 2^e with sig[1] = 1; a NaN keeps its fraction in sig.
Unpacked(cls, sign, e, sig) == [cls |-> cls, sign |-> sign, e |-> e, sig |-> sig]

Bias(eb) == 2 ^ (eb - 1) - 1

\* bits (most significant first) of a float with eb exponent and mb fraction bits
Unpack(bits, eb, mb) ==
    LET sign == bits[1]
        ex   == BitsToNat(SubSeq(bits, 2, eb + 1))
        frac == SubSeq(bits, eb + 2, eb + mb + 1)
    IN  IF ex = 2 ^ eb - 1
        THEN IF AllZero(frac) THEN Unpacked("inf", sign, 0, <<>>)
             ELSE Unpacked("nan", sign, 0, frac)
        ELSE IF ex = 0
        THEN IF AllZero(frac) THEN Unpacked("zero", sign, 0, <<>>)
             ELSE LET p == FirstOne(frac)
                  IN  Unpacked("fin", sign, 1 - Bias(eb) - p, SubSeq(frac, p, mb))
        ELSE Unpacked("fin", sign, ex - Bias(eb), <<1>> \o frac)

\* round to nearest, ties to even, into eb exponent and mb fraction bits
Pack(u, eb, mb) ==
    LET ones == Rep(1, eb)
        zero == Rep(0, eb)
    IN  CASE u.cls = "zero" -> <<u.sign>> \o zero \o Rep(0, mb)
          [] u.cls = "inf"  -> <<u.sign>> \o ones \o Rep(0, mb)
          \* a NaN stays a NaN: quiet bit set, the payload's leading bits kept
          [] u.cls = "nan"  -> <<u.sign>> \o ones \o <<1>> \o TakePad(u.sig, 2, mb - 1)
          [] OTHER ->
               IF u.e > Bias(eb) THEN <<u.sign>> \o ones \o Rep(0, mb)
               ELSE
                 LET emin  == 1 - Bias(eb)
                     \* normal: drop the leading 1; subnormal: shift right (a
                     \* shift beyond mb + 2 places rounds to zero like mb + 2)
                     shift == IF u.e >= emin THEN 0
                              ELSE IF emin - u.e > mb + 2 THEN mb + 2
                              ELSE emin - u.e
                     full  == IF shift = 0 THEN Tail(u.sig)
                              ELSE Rep(0, shift - 1) \o u.sig
                     ex    == IF shift = 0 THEN u.e + Bias(eb) ELSE 0
                     kept  == TakePad(full, 1, mb)
                     rnd   == IF Len(full) > mb THEN full[mb + 1] ELSE 0
                     stick == \E k \in (mb + 2)..Len(full) : full[k] = 1
                     up    == rnd = 1 /\ (stick \/ kept[mb] = 1)
                     body  == NatToBits(ex, eb) \o kept
                 IN  <<u.sign>> \o (IF up THEN IncBits(body) ELSE body)

\* `v as f32`
F64ToF32(bytes) == BitsToBytes(Pack(Unpack(BytesToBits(bytes), 11, 52), 8, 23))

\* a conversion that flushes subnormal results to zero
F64ToF16_flush_to_zero(bytes) ==
    LET h == BitsToBytes(Pack(Unpack(BytesToBits(bytes), 11, 52), 5, 10))
    IN  IF (h[2] % 128) < 4 THEN <<0, h[2] - (h[2] % 128)>> ELSE h

\* half::f16::from_f64(v).to_bits()
F64ToF16(bytes) == BitsToBytes(Pack(Unpack(BytesToBits(bytes), 11, 52), 5, 10))

\* `x as f64` of an f32
F32ToF64(bytes) == BitsToBytes(Pack(Unpack(BytesToBits(bytes), 8, 23), 11, 52))

\* half::f16::from_bits(bits).to_f64()
F16ToF64(bytes) == BitsToBytes(Pack(Unpack(BytesToBits(bytes), 5, 10), 11, 52))

\* `v as f64` of an i64
I64ToF64(bytes) ==
    LET bits == BytesToBits(bytes)
        neg  == bits[1] = 1
        mag  == IF neg THEN NegBits(bits) ELSE bits
        p    == FirstOne(mag)
        u    == IF p = 0 THEN Unpacked("zero", 0, 0, <<>>)
                ELSE Unpacked("fin", IF neg THEN 1 ELSE 0, 64 - p, SubSeq(mag, p, 64))
    IN  BitsToBytes(Pack(u, 11, 52))

\* a conversion that rounds toward negative infinity
F64ToI64_floor(bytes) ==
    LET u    == Unpack(BytesToBits(bytes), 11, 52)
        imin == <<1>> \o Rep(0, 63)
        imax == <<0>> \o Rep(1, 63)
    IN  BitsToBytes(
          CASE u.cls = "nan"  -> Rep(0, 64)
            [] u.cls = "zero" -> Rep(0, 64)
            [] u.cls = "inf"  -> IF u.sign = 1 THEN imin ELSE imax
            [] OTHER ->
                 IF u.e < 0 THEN Rep(u.sign, 64)
                 ELSE IF u.e >= 63 THEN (IF u.sign = 1 THEN imin ELSE imax)
                 ELSE LET mag  == Rep(0, 63 - u.e) \o TakePad(u.sig, 1, u.e + 1)
                          rest == SubSeq(u.sig, u.e + 2, Len(u.sig))
                      IN  IF u.sign = 0 THEN mag
                          ELSE IF AllZero(rest) THEN NegBits(mag)
                          ELSE NegBits(IncBits(mag)))

\* `v as i64` of an f64: toward zero, saturating, NaN -> 0
F64ToI64(bytes) ==
    LET u    == Unpack(BytesToBits(bytes), 11, 52)
        imin == <<1>> \o Rep(0, 63)
        imax == <<0>> \o Rep(1, 63)
    IN  BitsToBytes(
          CASE u.cls = "nan"  -> Rep(0, 64)
            [] u.cls = "zero" -> Rep(0, 64)
            [] u.cls = "inf"  -> IF u.sign = 1 THEN imin ELSE imax
            [] OTHER ->
                 IF u.e < 0 THEN Rep(0, 64)
                 ELSE IF u.e >= 63 THEN (IF u.sign = 1 THEN imin ELSE imax)
                 ELSE LET mag == Rep(0, 63 - u.e) \o TakePad(u.sig, 1, u.e + 1)
                      IN  IF u.sign = 1 THEN NegBits(mag) ELSE mag)

\* `v as u64` of an f64: toward zero, saturating, NaN and negatives -> 0
F64ToU64(bytes) ==
    LET u == Unpack(BytesToBits(bytes), 11, 52)
    IN  BitsToBytes(
          CASE u.cls = "nan"  -> Rep(0, 64)
            [] u.cls = "zero" -> Rep(0, 64)
            [] u.cls = "inf"  -> IF u.sign = 1 THEN Rep(0, 64) ELSE Rep(1, 64)
            [] OTHER ->
                 IF u.sign = 1 \/ u.e < 0 THEN Rep(0, 64)
                 ELSE IF u.e >= 64 THEN Rep(1, 64)
                 ELSE Rep(0, 63 - u.e) \o TakePad(u.sig, 1, u.e + 1))

\* ------------------------------------------------------- data model

\* Names and strings are their UTF-8 bytes.
NmA         == <<97>>
NmB         == <<98>>
NmX         == <<120>>
NmY         == <<121>>
NmZ         == <<122>>
NmId        == <<105, 100>>
NmExtra     == <<101, 120, 116, 114, 97>>
NmKey       == <<95, 107, 101, 121>>
NmNamespace == <<95, 110, 97, 109, 101, 115, 112, 97, 99, 101>>
NmSet       == <<95, 115, 101, 116>>
NmAux       == <<95, 97, 117, 120>>
StrTest     == <<116, 101, 115, 116>>
StrDemo     == <<100, 101, 109, 111>>

\* aerospike_core::Value.  data holds the payload as bytes: the i64 of an Int,
\* the raw bits of a Float (fw = 64 for FloatValue::F64, 32 for F32), the
\* UTF-8 bytes of a String, the bytes of a Blob; fw is 0 for every other tag.
Val(tag, fw, data) == [tag |-> tag, fw |-> fw, data |-> data]

Nil         == Val("Nil", 0, <<>>)
BoolV(b)    == Val("Bool", 0, IF b THEN <<1>> ELSE <<0>>)
IntV(bytes) == Val("Int", 0, bytes)
F64V(bits)  == Val("Float", 64, bits)
F32V(bits)  == Val("Float", 32, bits)
StringV(s)  == Val("String", 0, s)
BlobV(b)    == Val("Blob", 0, b)

\* the variants write_value_to_buffer has no arm for
OtherTags == {"List", "HashMap", "GeoJSON", "HLL", "Infinity", "Wildcard"}

\* FieldInfo
FieldInfo(name, offset, itemsize, base_itemsize, kind) ==
    [name |-> name, offset |-> offset, itemsize |-> itemsize,
     base_itemsize |-> base_itemsize, kind |-> kind]

\* A Python exception: its type, its message template and the values the
\* message is formatted with (field name, dtype kind tag, a number).
Err(exc, msg, field, tag, num) ==
    [tag |-> tag, exc |-> exc, msg |-> msg, field |-> field, num |-> num]

NoErr == Err("none", "", <<>>, "", 0)

\* ------------------------------------------------------- dtype parsing

\* a kind match whose fallback arm treats the field as opaque bytes
DtypeKind_lenient(kind_str) ==
    CASE kind_str = "i" -> "Int"
      [] kind_str = "u" -> "Uint"
      [] kind_str = "f" -> "Float"
      [] kind_str = "S" -> "FixedBytes"
      [] OTHER -> "VoidBytes"

\* match kind_str.as_str()
DtypeKind(kind_str) ==
    CASE kind_str = "i" -> "Int"
      [] kind_str = "u" -> "Uint"
      [] kind_str = "f" -> "Float"
      [] kind_str = "S" -> "FixedBytes"
      [] kind_str = "V" -> "VoidBytes"
      [] OTHER -> "unsupported"

\* a bounds check that forgets the field's width
exceeds_row_offset_only(f, row_stride) == f.offset > row_stride

\* the bounds check: the field must fit within the row stride
exceeds_row(f, row_stride) == f.offset + f.itemsize > row_stride

RECURSIVE parse_fields_from(_, _, _)
\* the loop of parse_dtype_fields from field k on, `acc` being `fields` so far
parse_fields_from(dtype, k, acc) ==
    IF k > Len(dtype.fields)
    THEN [err |-> NoErr, fields |-> acc, row_stride |-> dtype.itemsize]
    ELSE LET f    == dtype.fields[k]
             kind == DtypeKind(f.kind)
         IN  IF kind = "unsupported"
             THEN [err |-> Err("TypeError", "must be numeric or fixed-length bytes",
                               f.name, f.kind, 0),
                   fields |-> <<>>, row_stride |-> 0]
             ELSE IF exceeds_row(f, dtype.itemsize)
             THEN [err |-> Err("ValueError", "exceeds row boundary",
                               f.name, "", f.offset + f.itemsize),
                   fields |-> <<>>, row_stride |-> 0]
             ELSE parse_fields_from(dtype, k + 1,
                    Append(acc, FieldInfo(f.name, f.offset, f.itemsize,
                                          f.base_itemsize, kind)))

parse_dtype_fields(dtype) == parse_fields_from(dtype, 1, <<>>)

\* ------------------------------------------------------- raw memory

\* ptr::write_unaligned / ptr::copy_nonoverlapping: bytes stored at offset dst
Store(mem, dst, bytes) ==
    [k \in 1..Len(mem) |->
        IF k - 1 >= dst /\ k - 1 < dst + Len(bytes) THEN bytes[k - dst] ELSE mem[k]]

\* ptr::read_unaligned / ptr::copy_nonoverlapping: n bytes read at offset src
Load(mem, src, n) == [k \in 1..n |-> mem[src + k]]

\* the offsets an access of n bytes at offset p touches
Span(p, n) == p..(p + n - 1)

WOk(mem, touched)  == [err |-> NoErr, mem |-> mem, touched |-> touched]
WErr(mem, e)       == [err |-> e, mem |-> mem, touched |-> {}]

\* ------------------------------------------------------- buffer writes

\* an integer write that saturates at the bounds of the field's width
write_int_to_buffer_clamping(mem, row_ptr, field, val) ==
    LET dst  == row_ptr + field.offset
        s    == field.base_itemsize
        fits == SignExtend(Narrow(val, s)) = val
        neg  == val[8] >= 128
        sat  == IF neg THEN Rep(0, s - 1) \o <<128>> ELSE Rep(255, s - 1) \o <<127>>
    IN  IF s \in {1, 2, 4, 8}
        THEN WOk(Store(mem, dst, IF fits THEN Narrow(val, s) ELSE sat), Span(dst, s))
        ELSE WErr(mem, Err("TypeError", "unsupported int size", <<>>, "", s))

\* an integer write that keeps a value the field already holds
write_int_to_buffer_if_empty(mem, row_ptr, field, val) ==
    LET dst == row_ptr + field.offset
        s   == field.base_itemsize
    IN  IF s \in {1, 2, 4, 8}
        THEN WOk(IF \A k \in 1..s : mem[dst + k] = 0
                 THEN Store(mem, dst, Narrow(val, s)) ELSE mem, Span(dst, s))
        ELSE WErr(mem, Err("TypeError", "unsupported int size", <<>>, "", s))

write_int_to_buffer(mem, row_ptr, field, val) ==
    LET dst == row_ptr + field.offset
        s   == field.base_itemsize
    IN  IF s \in {1, 2, 4, 8}
        THEN WOk(Store(mem, dst, Narrow(val, s)), Span(dst, s))
        ELSE WErr(mem, Err("TypeError", "unsupported int size", <<>>, "", s))

write_uint_to_buffer(mem, row_ptr, field, val) ==
    LET dst == row_ptr + field.offset
        s   == field.base_itemsize
    IN  IF s \in {1, 2, 4, 8}
        THEN WOk(Store(mem, dst, Narrow(val, s)), Span(dst, s))
        ELSE WErr(mem, Err("TypeError", "unsupported uint size", <<>>, "", s))

\* a float write that stores a wider field's first 8 bytes
write_float_to_buffer_any_width(mem, row_ptr, field, val) ==
    LET dst == row_ptr + field.offset
        s   == field.base_itemsize
    IN  CASE s = 4 -> WOk(Store(mem, dst, F64ToF32(val)), Span(dst, 4))
          [] s = 2 -> WOk(Store(mem, dst, F64ToF16(val)), Span(dst, 2))
          [] OTHER -> WOk(Store(mem, dst, val), Span(dst, 8))

write_float_to_buffer(mem, row_ptr, field, val) ==
    LET dst == row_ptr + field.offset
        s   == field.base_itemsize
    IN  CASE s = 4 -> WOk(Store(mem, dst, F64ToF32(val)), Span(dst, 4))
          [] s = 8 -> WOk(Store(mem, dst, val), Span(dst, 8))
          [] s = 2 -> WOk(Store(mem, dst, F64ToF16(val)), Span(dst, 2))
          [] OTHER -> WErr(mem, Err("TypeError", "unsupported float size", <<>>, "", s))

Min(a, b) == IF a < b THEN a ELSE b

\* a copy of the whole value, without the clamp to the field's width
write_bytes_to_buffer_unclamped(mem, row_ptr, field, data) ==
    LET dst      == row_ptr + field.offset
        copy_len == Len(data)
    IN  IF copy_len > 0
        THEN WOk(Store(mem, dst, SubSeq(data, 1, copy_len)), Span(dst, copy_len))
        ELSE WOk(mem, {})

\* a copy that fills the rest of the field with zeros
write_bytes_to_buffer_padding(mem, row_ptr, field, data) ==
    LET dst      == row_ptr + field.offset
        copy_len == Min(Len(data), field.itemsize)
    IN  IF field.itemsize > 0
        THEN WOk(Store(mem, dst, SubSeq(data, 1, copy_len)
                                   \o Rep(0, field.itemsize - copy_len)),
                 Span(dst, field.itemsize))
        ELSE WOk(mem, {})

write_bytes_to_buffer(mem, row_ptr, field, data) ==
    LET dst      == row_ptr + field.offset
        copy_len == Min(Len(data), field.itemsize)
    IN  IF copy_len > 0
        THEN WOk(Store(mem, dst, SubSeq(data, 1, copy_len)), Span(dst, copy_len))
        ELSE WOk(mem, {})

\* a sub-array test that also lets a scalar field through
is_sub_array_or_scalar(field) == field.itemsize >= field.base_itemsize

\* the guard of the Blob arm: the numeric field is a sub-array
is_sub_array(field) == field.itemsize > field.base_itemsize

\* a Nil arm that clears the field
write_nil_zero_fill(mem, row_ptr, field) ==
    WOk(Store(mem, row_ptr + field.offset, Rep(0, field.itemsize)),
        Span(row_ptr + field.offset, field.itemsize))

\* Value::Nil => {}: leave as zero (buffer is pre-zeroed)
write_nil(mem, row_ptr, field) == WOk(mem, {})

float_value_to_f64(fv) == IF fv.fw = 64 THEN fv.data ELSE F32ToF64(fv.data)

IsBytesKind(kind) == kind \in {"FixedBytes", "VoidBytes"}

write_value_to_buffer(mem, row_ptr, field, value) ==
    CASE value.tag = "Int" ->
           CASE field.kind = "Int"   -> write_int_to_buffer(mem, row_ptr, field, value.data)
             [] field.kind = "Uint"  -> write_uint_to_buffer(mem, row_ptr, field, value.data)
             [] field.kind = "Float" ->
                  write_float_to_buffer(mem, row_ptr, field, I64ToF64(value.data))
             [] OTHER -> WErr(mem, Err("TypeError", "cannot write integer to bytes field",
                                       field.name, "", 0))
      [] value.tag = "Float" ->
           LET v == float_value_to_f64(value)
           IN  CASE field.kind = "Float" -> write_float_to_buffer(mem, row_ptr, field, v)
                 [] field.kind = "Int"   ->
                      write_int_to_buffer(mem, row_ptr, field, F64ToI64(v))
                 [] field.kind = "Uint"  ->
                      write_uint_to_buffer(mem, row_ptr, field, F64ToU64(v))
                 [] OTHER -> WErr(mem, Err("TypeError", "cannot write float to bytes field",
                                           field.name, "", 0))
      [] value.tag = "Bool" ->
           LET iv == I64(IF value.data = <<1>> THEN 1 ELSE 0)
           IN  CASE field.kind = "Int"   -> write_int_to_buffer(mem, row_ptr, field, iv)
                 [] field.kind = "Uint"  -> write_uint_to_buffer(mem, row_ptr, field, iv)
                 [] field.kind = "Float" ->
                      write_float_to_buffer(mem, row_ptr, field, I64ToF64(iv))
                 [] OTHER -> WErr(mem, Err("TypeError", "cannot write bool to bytes field",
                                           field.name, "", 0))
      [] value.tag = "Blob" ->
           IF IsBytesKind(field.kind)
           THEN write_bytes_to_buffer(mem, row_ptr, field, value.data)
           ELSE IF is_sub_array(field)
           THEN write_bytes_to_buffer(mem, row_ptr, field, value.data)
           ELSE WErr(mem, Err("TypeError", "cannot write bytes to numeric field",
                              field.name, "", 0))
      [] value.tag = "String" ->
           IF IsBytesKind(field.kind)
           THEN write_bytes_to_buffer(mem, row_ptr, field, value.data)
           ELSE WErr(mem, Err("TypeError", "cannot write string to numeric field",
                              field.name, "", 0))
      [] value.tag = "Nil" -> write_nil(mem, row_ptr, field)
      [] OTHER -> WErr(mem, Err("TypeError", "unsupported Aerospike value type",
                                field.name, "", 0))

\* ------------------------------------------------------- buffer reads

ROk(v, touched) == [err |-> NoErr, value |-> v, touched |-> touched]
RErr(e)         == [err |-> e, value |-> Nil, touched |-> {}]

\* a read that returns byte fields without their zero padding
read_value_from_buffer_trimming(mem, row_ptr, field) ==
    LET src == row_ptr + field.offset
        s   == field.base_itemsize
    IN  CASE field.kind = "Int" ->
               IF s \in {1, 2, 4, 8}
               THEN ROk(IntV(SignExtend(Load(mem, src, s))), Span(src, s))
               ELSE RErr(Err("TypeError", "unsupported int size", <<>>, "", s))
          [] field.kind = "Uint" ->
               IF s \in {1, 2, 4, 8}
               THEN ROk(IntV(ZeroExtend(Load(mem, src, s))), Span(src, s))
               ELSE RErr(Err("TypeError", "unsupported uint size", <<>>, "", s))
          [] field.kind = "Float" ->
               CASE s = 2 -> ROk(F64V(F16ToF64(Load(mem, src, 2))), Span(src, 2))
                 [] s = 4 -> ROk(F64V(F32ToF64(Load(mem, src, 4))), Span(src, 4))
                 [] s = 8 -> ROk(F64V(Load(mem, src, 8)), Span(src, 8))
                 [] OTHER -> RErr(Err("TypeError", "unsupported float size", <<>>, "", s))
          [] OTHER ->
               LET b  == Load(mem, src, field.itemsize)
                   nz == {k \in 1..Len(b) : b[k] # 0}
                   m  == IF nz = {} THEN 0 ELSE CHOOSE k \in nz : \A q \in nz : q <= k
               IN  ROk(BlobV(SubSeq(b, 1, m)), Span(src, field.itemsize))

\* unsafe fn read_value_from_buffer(row_ptr, field)
read_value_from_buffer(mem, row_ptr, field) ==
    LET src == row_ptr + field.offset
        s   == field.base_itemsize
    IN  CASE field.kind = "Int" ->
               IF s \in {1, 2, 4, 8}
               THEN ROk(IntV(SignExtend(Load(mem, src, s))), Span(src, s))
               ELSE RErr(Err("TypeError", "unsupported int size", <<>>, "", s))
          [] field.kind = "Uint" ->
               IF s \in {1, 2, 4, 8}
               THEN ROk(IntV(ZeroExtend(Load(mem, src, s))), Span(src, s))
               ELSE RErr(Err("TypeError", "unsupported uint size", <<>>, "", s))
          [] field.kind = "Float" ->
               CASE s = 2 -> ROk(F64V(F16ToF64(Load(mem, src, 2))), Span(src, 2))
                 [] s = 4 -> ROk(F64V(F32ToF64(Load(mem, src, 4))), Span(src, 4))
                 [] s = 8 -> ROk(F64V(Load(mem, src, 8)), Span(src, 8))
                 [] OTHER -> RErr(Err("TypeError", "unsupported float size", <<>>, "", s))
          [] OTHER ->
               ROk(BlobV(Load(mem, src, field.itemsize)), Span(src, field.itemsize))

\* ------------------------------------------------------- inputs

\* result_code_to_int; "None" is an absent result code
result_code_to_int(rc) ==
    CASE rc = "Ok" -> 0
      [] rc = "ServerError" -> 1
      [] rc = "KeyNotFoundError" -> 2
      [] rc = "GenerationError" -> 3
      [] rc = "Timeout" -> 9
      [] OTHER -> -1

\* a BatchRecord without its bins: result_code, key.user_key, and the Record's
\* generation (u32) and time_to_live() (whole seconds as a u64, when Some)
Header(rc, has_key, user_key, has_record, gen, has_ttl, secs) ==
    [has_key |-> has_key, user_key |-> user_key, has_record |-> has_record,
     has_ttl |-> has_ttl, secs |-> secs, result_code |-> rc, generation |-> gen]

\* a dtype as parse_dtype_fields sees it: per field its name, offset, itemsize,
\* base.itemsize and base.kind, in `names` order, and the row's itemsize
Dtype(fields, itemsize) == [itemsize |-> itemsize, fields |-> fields]

\* the widest scalar an access moves (i64 / u64 / f64)
MaxScalar == 8

\* content of the memory that follows a buffer
Foreign == 170

VARIABLES
    op,          \* "encode" (batch_to_numpy_py), "decode" (numpy_to_records) or
                 \* "list" (batch_to_batch_records_py)
    pc,          \* position in the running function
    dtype,       \* dtype_obj
    n,           \* results.len() / data_array.len()
    fields,      \* parsed Vec<FieldInfo>
    row_stride,
    allocated,   \* the three arrays exist (np.zeros returned)
    data,        \* data buffer, n * row_stride bytes, then MaxScalar foreign bytes
    meta,        \* meta buffer, 8 bytes a row
    rc,          \* result_codes buffer, 4 bytes a row
    key_map,     \* the PyDict: a set of [key, idx], one entry a key
    i,           \* row index of the loop
    br,          \* header of results[i]
    results,     \* headers of results[0..i], the rows the loop has entered
    bins,        \* bins of results[i].record iterated so far, in order
    touched,     \* the last step's data access: field index and offsets
    wcount,      \* per data byte, the number of writes so far
    err,         \* the PyErr returned, NoErr while there is none
    ret,         \* what the call returned: "none", "NumpyBatchRecords", "records"
    namespace,   \* decode: default namespace
    set_name,    \* decode: default set
    key_field,   \* decode: name of the key field
    cur,         \* decode: the row being built
    records,     \* decode: result Vec<(Key, Vec<Bin>)>
    batch_records \* list: result codes of the PyBatchRecord list built so far

vars == <<op, pc, dtype, n, fields, row_stride, allocated, data, meta, rc, key_map,
          i, br, results, bins, touched, wcount, err, ret, namespace, set_name, key_field,
          cur, records, batch_records>>

inputs == <<op, dtype, n, namespace, set_name, key_field>>

DataLen == n * row_stride

\* an access of field k (an index of `fields`) at the offsets `at`
Touch(k, at) == [field |-> k, at |-> at]
NoTouch == Touch(0, {})

\* ------------------------------------------------------- shared first step

\* both entry points: let (fields, row_stride) = parse_dtype_fields(dtype_obj)?
ParseDtype ==
    /\ op \in {"encode", "decode"} /\ pc = "start"
    /\ LET r == parse_dtype_fields(dtype)
       IN  /\ err' = r.err
           /\ fields' = r.fields
           /\ row_stride' = r.row_stride
           /\ pc' = IF r.err = NoErr THEN "parsed" ELSE "failed"
    /\ UNCHANGED <<inputs, batch_records, allocated, data, meta, rc, key_map, i, br, results, bins, touched,
                   wcount, ret, cur, records>>

\* ------------------------------------------------------- batch_to_numpy_py

\* np.zeros for the three arrays, the pointers, field_map, key_map
Allocate ==
    /\ op = "encode" /\ pc = "parsed"
    /\ allocated' = TRUE
    /\ data' = Rep(0, n * row_stride) \o Rep(Foreign, MaxScalar)
    /\ wcount' = Rep(0, n * row_stride + MaxScalar)
    /\ meta' = Rep(0, n * 8)
    /\ rc' = Rep(0, n * 4)
    /\ key_map' = {}
    /\ i' = 0
    /\ pc' = "loop"
    /\ UNCHANGED <<inputs, batch_records, fields, row_stride, br, results, bins, touched, err, ret, cur, records>>

\* a Python object: its type and its content
PyObj(type, content) == [type |-> type, content |-> content]

\* value_to_py
value_to_py(v) ==
    CASE v.tag = "Nil"      -> PyObj("NoneType", <<>>)
      [] v.tag = "Bool"     -> PyObj("bool", v.data)
      [] v.tag = "Int"      -> PyObj("int", v.data)
      [] v.tag = "Float"    -> PyObj("float", float_value_to_f64(v))
      [] v.tag = "String"   -> PyObj("str", v.data)
      [] v.tag = "Blob"     -> PyObj("bytes", v.data)
      [] v.tag = "List"     -> PyObj("list", v.data)
      [] v.tag = "HashMap"  -> PyObj("dict", v.data)
      [] v.tag = "GeoJSON"  -> PyObj("str", v.data)
      [] v.tag = "HLL"      -> PyObj("bytes", v.data)
      [] OTHER              -> PyObj("NoneType", <<>>)

\* i.into_pyobject(py)
index_to_py(idx) == PyObj("int", I64(idx))

\* a list or a dict cannot be a dict key
hashable(obj) == obj.type \notin {"list", "dict"}

\* a dict that keeps the first index stored under a key
set_item_keep_first(map, key, idx) ==
    IF \E e \in map : e.key = key THEN map
    ELSE map \cup {[key |-> key, idx |-> idx]}

\* an association list: one entry per call
set_item_append(map, key, idx) == map \cup {[key |-> key, idx |-> idx]}

\* key_map.set_item(key, idx)
set_item(map, key, idx) ==
    {e \in map : e.key # key} \cup {[key |-> key, idx |-> idx]}

\* a lookup that falls back to the first field
field_map_get_or_first(name) ==
    LET ks == {k \in 1..Len(fields) : fields[k].name = name}
    IN  IF ks = {} THEN 1 ELSE CHOOSE k \in ks : \A q \in ks : q <= k

\* field_map.get(bin_name): the last field of that name, 0 when there is none
field_map_get(name) ==
    LET ks == {k \in 1..Len(fields) : fields[k].name = name}
    IN  IF ks = {} THEN 0 ELSE CHOOSE k \in ks : \A q \in ks : q <= k

\* a cast that saturates
U32_saturating(bytes) ==
    IF SubSeq(bytes, 5, 8) = Rep(0, 4) THEN Narrow(bytes, 4) ELSE Rep(255, 4)

\* `x as u32`
U32(bytes) == Narrow(bytes, 4)

\* a loop head that stores the result code with the row's data only
BeginRow_code_with_data(h) ==
    /\ op = "encode" /\ pc = "loop" /\ i < n
    /\   LET result_code == IF h.result_code = "None" THEN 0
                            ELSE result_code_to_int(h.result_code)
             user_key    == IF h.has_key THEN value_to_py(h.user_key)
                            ELSE index_to_py(i)
             fill        == result_code = 0 /\ h.has_record
             ttl         == IF h.has_ttl THEN U32(h.secs) ELSE <<255, 255, 255, 255>>
         IN  /\ br' = h
             /\ results' = Append(results, h)
             /\ rc' = IF fill THEN Store(rc, i * 4, Narrow(I64(result_code), 4)) ELSE rc
             /\ bins' = <<>>
             /\ IF hashable(user_key)
                THEN /\ key_map' = set_item(key_map, user_key, i)
                     /\ meta' = IF fill
                                THEN Store(Store(meta, i * 8, h.generation), i * 8 + 4, ttl)
                                ELSE meta
                     /\ pc' = IF fill THEN "bins" ELSE "loop"
                     /\ i' = IF fill THEN i ELSE i + 1
                     /\ err' = err
                ELSE /\ err' = Err("TypeError", "unhashable type", <<>>, user_key.type, 0)
                     /\ pc' = "failed"
                     /\ UNCHANGED <<key_map, meta, i>>
    /\ touched' = NoTouch
    /\ UNCHANGED <<inputs, batch_records, fields, row_stride, allocated, data, wcount, ret,
                   cur, records>>

\* a loop head that takes a row without a result code for a failed row
BeginRow_absent_code_fails(h) ==
    /\ op = "encode" /\ pc = "loop" /\ i < n
    /\   LET result_code == IF h.result_code = "None" THEN 1
                            ELSE result_code_to_int(h.result_code)
             user_key    == IF h.has_key THEN value_to_py(h.user_key)
                            ELSE index_to_py(i)
             fill        == result_code = 0 /\ h.has_record
             ttl         == IF h.has_ttl THEN U32(h.secs) ELSE <<255, 255, 255, 255>>
         IN  /\ br' = h
             /\ results' = Append(results, h)
             /\ rc' = Store(rc, i * 4, Narrow(I64(result_code), 4))
             /\ bins' = <<>>
             /\ IF hashable(user_key)
                THEN /\ key_map' = set_item(key_map, user_key, i)
                     /\ meta' = IF fill
                                THEN Store(Store(meta, i * 8, h.generation), i * 8 + 4, ttl)
                                ELSE meta
                     /\ pc' = IF fill THEN "bins" ELSE "loop"
                     /\ i' = IF fill THEN i ELSE i + 1
                     /\ err' = err
                ELSE /\ err' = Err("TypeError", "unhashable type", <<>>, user_key.type, 0)
                     /\ pc' = "failed"
                     /\ UNCHANGED <<key_map, meta, i>>
    /\ touched' = NoTouch
    /\ UNCHANGED <<inputs, batch_records, fields, row_stride, allocated, data, wcount, ret,
                   cur, records>>

\* one iteration's head: result code, key_map entry, and the meta of a record
BeginRow(h) ==
    /\ op = "encode" /\ pc = "loop" /\ i < n
    /\   LET result_code == IF h.result_code = "None" THEN 0
                            ELSE result_code_to_int(h.result_code)
             user_key    == IF h.has_key THEN value_to_py(h.user_key)
                            ELSE index_to_py(i)
             fill        == result_code = 0 /\ h.has_record
             ttl         == IF h.has_ttl THEN U32(h.secs) ELSE <<255, 255, 255, 255>>
         IN  /\ br' = h
             /\ results' = Append(results, h)
             /\ rc' = Store(rc, i * 4, Narrow(I64(result_code), 4))
             /\ bins' = <<>>
             /\ IF hashable(user_key)
                THEN /\ key_map' = set_item(key_map, user_key, i)
                     /\ meta' = IF fill
                                THEN Store(Store(meta, i * 8, h.generation), i * 8 + 4, ttl)
                                ELSE meta
                     /\ pc' = IF fill THEN "bins" ELSE "loop"
                     /\ i' = IF fill THEN i ELSE i + 1
                     /\ err' = err
                ELSE /\ err' = Err("TypeError", "unhashable type", <<>>, user_key.type, 0)
                     /\ pc' = "failed"
                     /\ UNCHANGED <<key_map, meta, i>>
    /\ touched' = NoTouch
    /\ UNCHANGED <<inputs, batch_records, fields, row_stride, allocated, data, wcount, ret,
                   cur, records>>

BinNames(seq) == {seq[k].name : k \in 1..Len(seq)}

Bump(w, touchedSet) ==
    [k \in 1..Len(w) |-> IF (k - 1) \in touchedSet THEN w[k] + 1 ELSE w[k]]

\* a bins loop that drops the error of a write and goes on
WriteBin_skip_failed(name, value) ==
    /\ op = "encode" /\ pc = "bins"
    /\ name \notin BinNames(bins)
    /\   LET k == field_map_get(name)
             w == IF k = 0 THEN WOk(data, {})
                  ELSE write_value_to_buffer(data, i * row_stride, fields[k], value)
         IN  /\ bins' = Append(bins, [name |-> name, value |-> value])
             /\ data' = w.mem
             /\ touched' = Touch(k, w.touched)
             /\ wcount' = Bump(wcount, w.touched)
             /\ err' = err
             /\ pc' \in (IF w.touched \subseteq 0..(DataLen - 1) THEN {"bins"}
                         ELSE {"bins", "crashed"})
    /\ UNCHANGED <<inputs, batch_records, fields, row_stride, allocated, meta, rc, key_map, i, br, results,
                   ret, cur, records>>

\* one iteration of `for (bin_name, value) in &record.bins`; the bins of a
\* record have distinct names and come in the map's order, which is any order
WriteBin(name, value) ==
    /\ op = "encode" /\ pc = "bins"
    /\ name \notin BinNames(bins)
    /\   LET k == field_map_get(name)
             w == IF k = 0 THEN WOk(data, {})
                  ELSE write_value_to_buffer(data, i * row_stride, fields[k], value)
         IN  /\ bins' = Append(bins, [name |-> name, value |-> value])
             /\ data' = w.mem
             /\ touched' = Touch(k, w.touched)
             /\ wcount' = Bump(wcount, w.touched)
             /\ err' = w.err
             \* a write past the array's end lands in foreign memory: the run
             \* goes on with the heap damaged, or the process dies
             /\ pc' \in (IF w.err # NoErr THEN {"failed"}
                         ELSE IF w.touched \subseteq 0..(DataLen - 1) THEN {"bins"}
                         ELSE {"bins", "crashed"})
    /\ UNCHANGED <<inputs, batch_records, fields, row_stride, allocated, meta, rc, key_map, i, br, results,
                   ret, cur, records>>

\* the record has no further bin
NextRow ==
    /\ op = "encode" /\ pc = "bins"
    /\ i' = i + 1
    /\ pc' = "loop"
    /\ touched' = NoTouch
    /\ UNCHANGED <<inputs, batch_records, fields, row_stride, allocated, data, meta, rc, key_map, br, results,
                   bins, wcount, err, ret, cur, records>>

\* NumpyBatchRecords(data_array, meta_array, result_codes_array, key_map)
Construct ==
    /\ op = "encode" /\ pc = "loop" /\ i = n
    /\ ret' = "NumpyBatchRecords"
    /\ pc' = "done"
    /\ UNCHANGED <<inputs, batch_records, fields, row_stride, allocated, data, meta, rc, key_map, i,
                   br, results, bins, touched, wcount, err, cur, records>>

\* ------------------------------------------------------- numpy_to_records

\* fields.iter().find(|f| f.name == name): index of the first match, 0 for None
find_field(name) ==
    LET ks == {k \in 1..Len(fields) : fields[k].name = name}
    IN  IF ks = {} THEN 0 ELSE CHOOSE k \in ks : \A q \in ks : k <= q

\* a prefix test for two underscores
starts_with_two_underscores(name) == Len(name) > 1 /\ name[1] = 95 /\ name[2] = 95

\* name.starts_with('_')
starts_with_underscore(name) == Len(name) > 0 /\ name[1] = 95

RECURSIVE filter_bin_fields(_)
\* indices of the fields with name != key_field that do not start with '_'
filter_bin_fields(k) ==
    IF k > Len(fields) THEN <<>>
    ELSE (IF fields[k].name # key_field /\ ~starts_with_underscore(fields[k].name)
          THEN <<k>> ELSE <<>>) \o filter_bin_fields(k + 1)

bin_fields == filter_bin_fields(1)

\* a C-string length: up to the first zero byte
trimmed_len_first_zero(b) ==
    LET z == {k \in 1..Len(b) : b[k] = 0}
    IN  IF z = {} THEN Len(b) ELSE (CHOOSE k \in z : \A q \in z : k <= q) - 1

\* b.iter().rposition(|&x| x != 0).map_or(0, |p| p + 1)
trimmed_len(b) ==
    LET nz == {k \in 1..Len(b) : b[k] # 0}
    IN  IF nz = {} THEN 0 ELSE CHOOSE k \in nz : \A q \in nz : q <= k

RECURSIVE from_utf8_lossy(_)
\* ASCII is kept; a byte that starts no valid sequence becomes U+FFFD.  The
\* inputs hold no lead byte of a multi-byte sequence.
from_utf8_lossy(b) ==
    IF b = <<>> THEN <<>>
    ELSE (IF Head(b) < 128 THEN <<Head(b)>> ELSE <<239, 191, 189>>)
           \o from_utf8_lossy(Tail(b))

\* the match on the value read from `_namespace` / `_set`
name_from_value(v, default) ==
    CASE v.tag = "Blob"   -> from_utf8_lossy(SubSeq(v.data, 1, trimmed_len(v.data)))
      [] v.tag = "String" -> v.data
      [] OTHER -> default

NoRow == [bins |-> <<>>, key_value |-> Nil, ns |-> <<>>, set |-> <<>>]

\* a read past the array's end returns foreign memory, or the process dies
AfterRead(r, next) ==
    IF r.err # NoErr THEN {"failed"}
    ELSE IF r.touched \subseteq 0..(DataLen - 1) THEN {next}
    ELSE {next, "crashed"}

\* a key-field check that only a row to decode triggers
Partition_check_per_row ==
    /\ op = "decode" /\ pc = "parsed"
    /\ IF find_field(key_field) = 0 /\ n > 0
       THEN /\ err' = Err("ValueError", "dtype must contain a key field", key_field, "", 0)
            /\ pc' = "failed"
       ELSE /\ err' = err
            /\ pc' = "loop"
    /\ i' = 0
    /\ records' = <<>>
    /\ UNCHANGED <<inputs, batch_records, fields, row_stride, allocated, data, meta, rc, key_map, br, results,
                   bins, touched, wcount, ret, cur>>

\* data pointer, key_field_info, bin_fields, the missing-key check
Partition ==
    /\ op = "decode" /\ pc = "parsed"
    /\ IF find_field(key_field) = 0
       THEN /\ err' = Err("ValueError", "dtype must contain a key field", key_field, "", 0)
            /\ pc' = "failed"
       ELSE /\ err' = err
            /\ pc' = "loop"
    /\ i' = 0
    /\ records' = <<>>
    /\ UNCHANGED <<inputs, batch_records, fields, row_stride, allocated, data, meta, rc, key_map, br, results,
                   bins, touched, wcount, ret, cur>>

\* let key_value = read_value_from_buffer(row_ptr, key_fi)?
ReadKey ==
    /\ op = "decode" /\ pc = "loop" /\ i < n
    /\ LET k == find_field(key_field)
           r == read_value_from_buffer(data, i * row_stride, fields[k])
       IN  /\ cur' = [NoRow EXCEPT !.key_value = r.value]
           /\ touched' = Touch(k, r.touched)
           /\ err' = r.err
           /\ pc' \in AfterRead(r, "ns")
    /\ UNCHANGED <<inputs, batch_records, fields, row_stride, allocated, data, meta, rc, key_map, i, br, results,
                   bins, wcount, ret, records>>

\* namespace from the `_namespace` field, or the default
ReadNs ==
    /\ op = "decode" /\ pc = "ns"
    /\ LET k == find_field(NmNamespace)
           r == IF k = 0 THEN ROk(Nil, {})
                ELSE read_value_from_buffer(data, i * row_stride, fields[k])
       IN  /\ cur' = [cur EXCEPT !.ns = IF k = 0 THEN namespace
                                        ELSE name_from_value(r.value, namespace)]
           /\ touched' = Touch(k, r.touched)
           /\ err' = r.err
           /\ pc' \in AfterRead(r, "set")
    /\ UNCHANGED <<inputs, batch_records, fields, row_stride, allocated, data, meta, rc, key_map, i, br, results,
                   bins, wcount, ret, records>>

\* a set name that falls back to the default namespace
ReadSet_namespace_default ==
    /\ op = "decode" /\ pc = "set"
    /\ LET k == find_field(NmSet)
           r == IF k = 0 THEN ROk(Nil, {})
                ELSE read_value_from_buffer(data, i * row_stride, fields[k])
       IN  /\ cur' = [cur EXCEPT !.set = IF k = 0 THEN namespace
                                         ELSE name_from_value(r.value, set_name)]
           /\ touched' = Touch(k, r.touched)
           /\ err' = r.err
           /\ pc' \in AfterRead(r, "rbins")
    /\ UNCHANGED <<inputs, batch_records, fields, row_stride, allocated, data, meta, rc, key_map, i, br, results,
                   bins, wcount, ret, records>>

\* set name from the `_set` field, or the default
ReadSet ==
    /\ op = "decode" /\ pc = "set"
    /\ LET k == find_field(NmSet)
           r == IF k = 0 THEN ROk(Nil, {})
                ELSE read_value_from_buffer(data, i * row_stride, fields[k])
       IN  /\ cur' = [cur EXCEPT !.set = IF k = 0 THEN set_name
                                         ELSE name_from_value(r.value, set_name)]
           /\ touched' = Touch(k, r.touched)
           /\ err' = r.err
           /\ pc' \in AfterRead(r, "rbins")
    /\ UNCHANGED <<inputs, batch_records, fields, row_stride, allocated, data, meta, rc, key_map, i, br, results,
                   bins, wcount, ret, records>>

\* a bins loop that takes Nil for a field it cannot read
ReadBin_nil_for_failed ==
    /\ op = "decode" /\ pc = "rbins" /\ Len(cur.bins) < Len(bin_fields)
    /\ LET k == bin_fields[Len(cur.bins) + 1]
           f == fields[k]
           r == read_value_from_buffer(data, i * row_stride, f)
       IN  /\ cur' = [cur EXCEPT !.bins = Append(@, [name |-> f.name, value |-> r.value])]
           /\ touched' = Touch(k, r.touched)
           /\ err' = NoErr
           /\ pc' \in (IF r.err # NoErr THEN {"rbins"} ELSE AfterRead(r, "rbins"))
    /\ UNCHANGED <<inputs, batch_records, fields, row_stride, allocated, data, meta, rc, key_map, i, br, results,
                   bins, wcount, ret, records>>

\* one iteration of `for field in &bin_fields`
ReadBin ==
    /\ op = "decode" /\ pc = "rbins" /\ Len(cur.bins) < Len(bin_fields)
    /\ LET k == bin_fields[Len(cur.bins) + 1]
           f == fields[k]
           r == read_value_from_buffer(data, i * row_stride, f)
       IN  /\ cur' = IF r.err = NoErr
                     THEN [cur EXCEPT !.bins = Append(@, [name |-> f.name, value |-> r.value])]
                     ELSE cur
           /\ touched' = Touch(k, r.touched)
           /\ err' = r.err
           /\ pc' \in AfterRead(r, "rbins")
    /\ UNCHANGED <<inputs, batch_records, fields, row_stride, allocated, data, meta, rc, key_map, i, br, results,
                   bins, wcount, ret, records>>

\* result.push((key, bins))
PushRow ==
    /\ op = "decode" /\ pc = "rbins" /\ Len(cur.bins) = Len(bin_fields)
    /\ records' = Append(records,
                    [key  |-> [namespace |-> cur.ns, set_name |-> cur.set,
                               user_key |-> cur.key_value],
                     bins |-> cur.bins])
    /\ i' = i + 1
    /\ pc' = "loop"
    /\ touched' = NoTouch
    /\ UNCHANGED <<inputs, batch_records, fields, row_stride, allocated, data, meta, rc, key_map, br, results,
                   bins, wcount, err, ret, cur>>

\* Ok(result)
Return ==
    /\ op = "decode" /\ pc = "loop" /\ i = n
    /\ ret' = "records"
    /\ pc' = "done"
    /\ UNCHANGED <<inputs, batch_records, fields, row_stride, allocated, data, meta, rc, key_map, i, br, results,
                   bins, touched, wcount, err, cur, records>>

\* a caller of batch_read(dtype) hands the array it got to batch_write_numpy
Handoff ==
    /\ op = "encode" /\ pc = "done"
    /\ op' = "decode"
    /\ pc' = "start"
    /\ ret' = "none"
    /\ i' = 0
    /\ touched' = NoTouch
    /\ UNCHANGED <<batch_records, dtype, n, namespace, set_name, key_field, fields, row_stride,
                   allocated, data, meta, rc, key_map, br, results, bins, wcount, err, cur,
                   records>>

\* ------------------------------------------------------- bounded inputs

\* a field of a dtype description
DField(name, kind, offset, itemsize, base_itemsize) ==
    [name |-> name, offset |-> offset, itemsize |-> itemsize,
     base_itemsize |-> base_itemsize, kind |-> kind]

\* rows of a batch
MaxRows == 2

\* fields of an enumerated dtype
MaxFields == 2

NoHeader == Header("None", FALSE, Nil, FALSE, <<0, 0, 0, 0>>, FALSE, I64(0))

BatchHeaders ==
    { Header("None", FALSE, Nil, TRUE, <<1, 0, 0, 0>>, FALSE, I64(0)),
      Header("Ok", TRUE, IntV(I64(1)), TRUE, <<2, 0, 0, 0>>, TRUE, I64(100)),
      Header("KeyNotFoundError", TRUE, StringV(<<107>>), FALSE, <<0, 0, 0, 0>>, FALSE, I64(0)),
      Header("Ok", TRUE, IntV(I64(1)), FALSE, <<0, 0, 0, 0>>, FALSE, I64(0)),
      Header("Ok", TRUE, Val("List", 0, <<>>), TRUE, <<1, 0, 0, 0>>, FALSE, I64(0)) }

BatchValues ==
    { Nil, IntV(I64(300)), StringV(<<97, 98>>), BlobV(<<1, 2, 3>>) }

BatchNames == {NmA, NmB, NmExtra}

BatchDtypes ==
    { \* int8 and S4, padded to 8
      Dtype(<<DField(NmA, "i", 0, 1, 1), DField(NmB, "S", 1, 4, 4)>>, 8),
      \* two overlapping byte fields
      Dtype(<<DField(NmA, "S", 0, 4, 4), DField(NmB, "V", 1, 2, 2)>>, 4),
      \* a zero-length int32 sub-array after an int32
      Dtype(<<DField(NmB, "i", 0, 4, 4), DField(NmA, "i", 4, 0, 4)>>, 4),
      \* a float16 sub-array of 2 and a uint16
      Dtype(<<DField(NmA, "f", 0, 4, 2), DField(NmB, "u", 4, 2, 2)>>, 6),
      \* a long double
      Dtype(<<DField(NmA, "f", 0, 16, 16)>>, 16),
      \* an object field
      Dtype(<<DField(NmA, "i", 0, 4, 4), DField(NmB, "O", 4, 8, 8)>>, 12),
      \* a field past the row
      Dtype(<<DField(NmA, "i", 4, 8, 8)>>, 8),
      \* key, namespace, set, a bin, a private field
      Dtype(<<DField(NmKey, "S", 0, 2, 2), DField(NmNamespace, "S", 2, 3, 3),
              DField(NmSet, "V", 5, 2, 2), DField(NmA, "i", 7, 2, 2),
              DField(NmAux, "u", 9, 1, 1)>>, 10),
      \* a key under another name, no namespace or set field
      Dtype(<<DField(NmId, "u", 0, 2, 2), DField(NmA, "S", 2, 2, 2)>>, 4) }

\* rows a caller's array may hold
RowPattern(p, len) ==
    CASE p = 1 -> Rep(0, len)
      [] p = 2 -> [k \in 1..len |-> IF k % 2 = 1 THEN 97 ELSE 0]
      [] p = 4 -> [k \in 1..len |-> IF k % 4 \in {1, 2} THEN 99 ELSE 0]
      [] p = 5 -> [k \in 1..len |-> IF k % 4 = 1 THEN 255 ELSE IF k % 4 = 2 THEN 0 ELSE 98]
      [] OTHER -> [k \in 1..len |-> 97 + (k % 3)]

RECURSIVE RowsOf(_, _)
RowsOf(ps, len) ==
    IF ps = <<>> THEN <<>> ELSE RowPattern(Head(ps), len) \o RowsOf(Tail(ps), len)

Idle ==
    /\ pc = "start" /\ fields = <<>> /\ row_stride = 0 /\ allocated = FALSE
    /\ meta = <<>> /\ rc = <<>> /\ key_map = {} /\ i = 0 /\ br = NoHeader /\ results = <<>>
    /\ bins = <<>> /\ touched = NoTouch /\ err = NoErr /\ ret = "none"
    /\ cur = NoRow /\ records = <<>> /\ batch_records = <<>>
    /\ namespace = StrTest /\ set_name = StrDemo

InitEncode(D, rows) ==
    /\ op = "encode" /\ dtype \in D /\ n \in rows /\ key_field = NmKey
    /\ data = <<>> /\ wcount = <<>>

InitDecode(D, rows) ==
    /\ op = "decode" /\ dtype \in D /\ n \in rows /\ key_field \in {NmKey, NmId}
    /\ \E ps \in [1..n -> 1..3] :
         data = RowsOf(ps, dtype.itemsize) \o Rep(Foreign, MaxScalar)
    /\ wcount = Rep(0, Len(data))

Init ==
    /\ Idle
    /\ InitEncode(BatchDtypes, 0..MaxRows) \/ InitDecode(BatchDtypes, 0..MaxRows)

Next ==
    \/ ParseDtype
    \/ Allocate
    \/ \E h \in BatchHeaders : BeginRow(h)
    \/ \E name \in BatchNames, value \in BatchValues : WriteBin(name, value)
    \/ NextRow
    \/ Construct
    \/ Partition
    \/ ReadKey
    \/ ReadNs
    \/ ReadSet
    \/ ReadBin
    \/ PushRow
    \/ Return

Spec == Init /\ [][Next]_vars

\* ------------------------------------------------------- dtype parsing alone

\* field shapes: kind tag, offset, itemsize, base itemsize
PoolShapes ==
    { <<"i", 0, 4, 4>>, <<"S", 4, 4, 4>>, <<"i", 4, 8, 8>>, <<"O", 0, 8, 8>>,
      <<"U", 4, 8, 8>>, <<"f", 8, 4, 4>>, <<"V", 8, 0, 0>>, <<"u", 6, 2, 2>> }

Strides == {4, 8, 12}

NameAt(k) == <<NmKey, NmA, NmB, NmX, NmY>>[k]

\* every dtype of at most MaxFields fields of these shapes, named by position
ParseDtypes ==
    UNION { { Dtype([k \in 1..m |-> DField(NameAt(k), sh[k][1], sh[k][2], sh[k][3],
                                              sh[k][4])], stride) :
                sh \in [1..m -> PoolShapes], stride \in Strides } :
            m \in 0..MaxFields }

\* both entry points on an empty batch
InitParse ==
    /\ Idle
    /\ InitEncode(ParseDtypes, {0}) \/ InitDecode(ParseDtypes, {0})

NextParse ==
    \/ ParseDtype
    \/ Allocate
    \/ Construct
    \/ Partition
    \/ Return

SpecParse == InitParse /\ [][NextParse]_vars

\* ------------------------------------------------------- decode alone

\* dtypes of arrays handed to batch_write_numpy
DecodeDtypes ==
    { \* a byte key and two bins, no namespace or set field
      Dtype(<<DField(NmKey, "S", 0, 4, 4), DField(NmA, "i", 4, 2, 2),
              DField(NmB, "S", 6, 2, 2)>>, 8),
      \* a namespace field only
      Dtype(<<DField(NmKey, "S", 0, 2, 2), DField(NmNamespace, "S", 2, 3, 3),
              DField(NmA, "u", 5, 1, 1)>>, 6),
      \* an integer key and a set field only
      Dtype(<<DField(NmKey, "i", 0, 2, 2), DField(NmSet, "V", 2, 2, 2),
              DField(NmB, "f", 4, 4, 4)>>, 8),
      \* key, namespace, set, bins around a private field
      Dtype(<<DField(NmB, "S", 0, 1, 1), DField(NmKey, "S", 1, 2, 2),
              DField(NmNamespace, "S", 3, 4, 4), DField(NmSet, "V", 7, 2, 2),
              DField(NmAux, "u", 9, 1, 1), DField(NmA, "f", 10, 2, 2)>>, 12),
      \* an integer namespace field
      Dtype(<<DField(NmKey, "u", 0, 2, 2), DField(NmNamespace, "i", 2, 2, 2),
              DField(NmSet, "S", 4, 2, 2)>>, 6),
      \* two candidate key fields
      Dtype(<<DField(NmId, "u", 0, 2, 2), DField(NmKey, "S", 2, 2, 2),
              DField(NmA, "V", 4, 2, 2)>>, 6),
      \* a long double bin
      Dtype(<<DField(NmKey, "f", 0, 8, 8), DField(NmA, "f", 8, 16, 16)>>, 24),
      \* a long double key
      Dtype(<<DField(NmKey, "f", 0, 16, 16), DField(NmA, "i", 16, 1, 1)>>, 17),
      \* no key field
      Dtype(<<DField(NmA, "i", 0, 2, 2)>>, 2) }

\* numpy_to_records on arrays of every mix of the row patterns
InitRecords ==
    /\ Idle
    /\ op = "decode" /\ dtype \in DecodeDtypes /\ n \in 0..MaxRows
    /\ key_field \in {NmKey, NmId}
    /\ \E ps \in [1..n -> 1..5] :
         data = RowsOf(ps, dtype.itemsize) \o Rep(Foreign, MaxScalar)
    /\ wcount = Rep(0, Len(data))

NextRecords ==
    \/ ParseDtype
    \/ Partition
    \/ ReadKey
    \/ ReadNs
    \/ ReadSet
    \/ ReadBin
    \/ PushRow
    \/ Return

SpecRecords == InitRecords /\ [][NextRecords]_vars

\* ------------------------------------------------------- one row, one field

\* shapes of the field x: kind tag, itemsize, base itemsize
UnitShapes ==
    { <<"i", 1, 1>>, <<"i", 2, 2>>, <<"i", 4, 4>>, <<"i", 8, 8>>, <<"i", 3, 3>>,
      <<"i", 8, 4>>, <<"i", 0, 4>>,
      <<"u", 1, 1>>, <<"u", 2, 2>>, <<"u", 4, 4>>, <<"u", 8, 8>>,
      <<"f", 2, 2>>, <<"f", 4, 4>>, <<"f", 8, 8>>, <<"f", 16, 16>>, <<"f", 4, 2>>,
      <<"S", 4, 4>>, <<"S", 8, 8>>, <<"V", 4, 4>> }

Max(a, b) == IF a > b THEN a ELSE b

\* an int64 key, the field x after it, and a 2-byte field y over x's first bytes
UnitDtypes ==
    { Dtype(<<DField(NmKey, "i", 0, 8, 8), DField(NmX, sh[1], 8, sh[2], sh[3]),
              DField(NmY, "S", 8, 2, 2)>>, 8 + Max(sh[2], 2)) : sh \in UnitShapes }

UnitValues ==
    { Nil, BoolV(TRUE), BoolV(FALSE),
      IntV(I64(300)), IntV(I64(-1)), IntV(I64(-129)), IntV(I64(65535)),
      IntV(I64(2147483647)),
      IntV(<<1, 0, 0, 0, 0, 0, 32, 0>>),                    \* 2^53 + 1
      IntV(<<255, 255, 255, 255, 255, 255, 255, 127>>),     \* i64::MAX
      IntV(<<0, 0, 0, 0, 0, 0, 0, 128>>),                   \* i64::MIN
      F64V(<<0, 0, 0, 0, 0, 0, 248, 63>>),                  \* 1.5
      F64V(<<51, 51, 51, 51, 51, 51, 7, 64>>),              \* 2.9
      F64V(<<51, 51, 51, 51, 51, 51, 7, 192>>),             \* -2.9
      F64V(<<154, 153, 153, 153, 153, 153, 185, 63>>),      \* 0.1
      F64V(<<105, 29, 85, 77, 16, 117, 255, 62>>),          \* 3e-5
      F64V(<<58, 140, 48, 226, 142, 121, 69, 62>>),         \* 1e-8
      F64V(<<219, 34, 149, 147, 92, 255, 111, 62>>),        \* 5.96e-8
      F64V(<<0, 0, 0, 0, 0, 254, 15, 63>>),                 \* 2^-14 - 2^-26
      F64V(<<0, 0, 0, 0, 0, 254, 239, 64>>),                \* 65520.0
      F64V(<<156, 117, 0, 136, 60, 228, 55, 126>>),         \* 1e300
      F64V(<<0, 0, 0, 0, 0, 0, 248, 127>>),                 \* NaN
      F64V(<<0, 0, 0, 0, 0, 0, 240, 127>>),                 \* +Infinity
      F32V(<<0, 0, 192, 63>>),                              \* 1.5f32
      StringV(<<97, 98>>), StringV(<<97, 98, 99, 100, 101, 102, 103, 104>>),
      StringV(<<>>),
      BlobV(<<1, 2, 3>>), BlobV(<<1, 0, 2, 0>>), BlobV(<<>>),
      BlobV(<<9, 8, 7, 6, 5, 4, 3, 2, 1>>) }
    \cup { Val(t, 0, <<>>) : t \in OtherTags }

UnitNames == {NmX, NmY}

UnitHeaders ==
    { Header("Ok", TRUE, IntV(I64(1)), TRUE, <<1, 0, 0, 0>>, FALSE, I64(0)) }

InitCoerce ==
    /\ Idle
    /\ InitEncode(UnitDtypes, {1})

NextCoerce ==
    \/ ParseDtype
    \/ Allocate
    \/ \E h \in UnitHeaders : BeginRow(h)
    \/ \E name \in UnitNames, value \in UnitValues : WriteBin(name, value)
    \/ NextRow
    \/ Construct
    \/ Handoff
    \/ Partition
    \/ ReadKey
    \/ ReadNs
    \/ ReadSet
    \/ ReadBin
    \/ PushRow
    \/ Return

SpecCoerce == InitCoerce /\ [][NextCoerce]_vars

\* ------------------------------------------------------- properties

KindTags == {"i", "u", "f", "S", "V"}

\* field k of the dtype description has an unrecognized kind tag / overruns the row
BadKind(k) == dtype.fields[k].kind \notin KindTags
Overruns(k) == dtype.fields[k].offset + dtype.fields[k].itemsize > dtype.itemsize
Defective(k) == BadKind(k) \/ Overruns(k)
DtypeIdx == 1..Len(dtype.fields)

\* the call failed in parse_dtype_fields
ParseFailed ==
    pc = "failed" /\ err.msg \in {"must be numeric or fixed-length bytes",
                                 "exceeds row boundary"}

\* nothing was allocated, read or written, and no row was processed
NoBufferOp ==
    /\ ~allocated /\ meta = <<>> /\ rc = <<>> /\ key_map = {}
    /\ touched = NoTouch /\ i = 0 /\ records = <<>> /\ ret = "none"
    /\ \A k \in 1..Len(wcount) : wcount[k] = 0
    /\ op = "encode" => data = <<>>

\* C1 as stated: the parser accepts a dtype only if every field has
\* offset + itemsize <= row_stride, and a dtype with a field violating this is
\* rejected with the out-of-bounds error, no buffer operation having occurred.
C1_OutOfBoundsError ==
    pc # "start" =>
      /\ (~ParseFailed => \A k \in DtypeIdx : ~Overruns(k))
      /\ ((\E k \in DtypeIdx : Overruns(k)) =>
            ParseFailed /\ err.exc = "ValueError" /\ NoBufferOp)

\* C1 amended: the parser accepts a dtype only if every field has
\* offset + itemsize <= row_stride; a dtype with a violating field is rejected
\* with no buffer operation, the error being the one of the first defective
\* field: the out-of-bounds ValueError naming it and offset + itemsize, unless
\* that field has an unrecognized kind tag, which gives the kind TypeError.
C1_Rejected ==
    pc # "start" =>
      /\ (~ParseFailed => \A k \in DtypeIdx : ~Overruns(k))
      /\ ((\E k \in DtypeIdx : Overruns(k)) => ParseFailed /\ NoBufferOp)
      /\ \A k \in DtypeIdx :
           (Defective(k) /\ \A q \in 1..(k - 1) : ~Defective(q)) =>
             /\ ParseFailed
             /\ err.field = dtype.fields[k].name
             /\ IF BadKind(k)
                THEN err.exc = "TypeError" /\ err.tag = dtype.fields[k].kind
                ELSE /\ err.exc = "ValueError"
                     /\ err.num = dtype.fields[k].offset + dtype.fields[k].itemsize

\* the dtype of the example: offset 4, itemsize 8, row stride 8, rejected
C1_Witness ==
    /\ dtype = Dtype(<<DField(NmKey, "i", 4, 8, 8)>>, 8)
    /\ ParseFailed /\ err.exc = "ValueError" /\ err.num = 12

\* the bytes of field f in row r
FieldRange(r, f) == Span(r * row_stride + f.offset, f.itemsize)

\* C2: every access of the encoder and the decoder lies inside the accessed
\* field of the current row, hence inside the n * row_stride bytes of the
\* data buffer.
C2_AccessInsideField ==
    touched.field # 0 =>
      /\ touched.at \subseteq FieldRange(i, fields[touched.field])
      /\ touched.at \subseteq 0..(DataLen - 1)

\* C3: a call that fails in dtype parsing has allocated, read and written
\* nothing and processed no row, in encode and in decode; and a dtype with a
\* kind tag other than i, u, f, S, V, or with a field out of bounds, fails so.
C3_ParseErrorsFirst ==
    /\ ParseFailed => NoBufferOp
    /\ (pc # "start" /\ \E k \in DtypeIdx : Defective(k)) => ParseFailed

\* a decode of a non-empty array and an encode of a non-empty batch, failed
\* in parsing on a kind tag
C3_Witness ==
    /\ ParseFailed /\ err.exc = "TypeError" /\ n > 0 /\ op = "decode"
    /\ Len(data) > MaxScalar

\* ------------------------------------------------------- write steps

\* the step is one iteration of the bins loop, for the bin LastBin, addressed
\* to the field WField (when WIdx is not 0) at data offset WDst
WroteBin == op = "encode" /\ pc = "bins" /\ Len(bins') = Len(bins) + 1
LastBin  == bins'[Len(bins')]
WIdx     == touched'.field
WField   == fields[WIdx]
WDst     == i * row_stride + WField.offset
IsIntField == WIdx # 0 /\ WField.kind \in {"Int", "Uint"}

\* the value of an i64 given as its bytes, when it lies in -2^31 .. 2^31 - 1
Small(b) ==
    \/ b[4] < 128 /\ \A j \in 5..8 : b[j] = 0
    \/ b[4] >= 128 /\ \A j \in 5..8 : b[j] = 255
SmallValue(b) ==
    b[1] + 256 * b[2] + 65536 * b[3]
      + 16777216 * (IF b[4] >= 128 THEN b[4] - 256 ELSE b[4])

\* byte j (1 = lowest) of v mod 2^(8w) in two's complement, for j <= w
ModByte(b, j) ==
    IF Small(b) /\ j <= 4 THEN (SmallValue(b) \div (256 ^ (j - 1))) % 256
    ELSE IF Small(b) THEN (IF SmallValue(b) < 0 THEN 255 ELSE 0)
    ELSE b[j]

\* C5: writing Int(v) into a signed or unsigned integer field of base width w
\* in {1, 2, 4, 8} returns no error, and the w bytes stored at the field's
\* start are v mod 2^(8w) in two's complement, least significant byte first
\* (no clamping).
C5_IntWraps ==
    [][(WroteBin /\ LastBin.value.tag = "Int" /\ IsIntField
          /\ WField.base_itemsize \in {1, 2, 4, 8}) =>
         /\ err' = NoErr /\ pc' # "failed"
         /\ \A j \in 1..WField.base_itemsize :
              data'[WDst + j] = ModByte(LastBin.value.data, j)]_vars

\* Int(300) was written into the 1-byte signed field x, which now holds 44
C5_Witness ==
    /\ op = "encode" /\ pc = "bins" /\ err = NoErr
    /\ bins = <<[name |-> NmX, value |-> IntV(I64(300))]>>
    /\ touched.field # 0
    /\ fields[touched.field].kind = "Int" /\ fields[touched.field].base_itemsize = 1
    /\ data[fields[touched.field].offset + 1] = 44

\* C6: writing a String or Blob of length L into a FixedBytes / VoidBytes
\* field returns no error, copies the first min(L, itemsize) bytes to the
\* field's start and leaves every other byte of the buffer, in the field and
\* outside it, with its prior content.
C6_ClampedCopy ==
    [][(WroteBin /\ LastBin.value.tag \in {"String", "Blob"}
          /\ WIdx # 0 /\ IsBytesKind(WField.kind)) =>
         LET L == Len(LastBin.value.data)
             m == IF L < WField.itemsize THEN L ELSE WField.itemsize
         IN  /\ err' = NoErr /\ pc' # "failed"
             /\ Len(data') = Len(data)
             /\ \A p \in 1..Len(data) :
                  data'[p] = IF p > WDst /\ p <= WDst + m
                             THEN LastBin.value.data[p - WDst]
                             ELSE data[p]]_vars

\* the 8-byte string was written into a 4-byte bytes field: 4 bytes copied, the
\* bytes before and after the field as they were
C6_Witness ==
    /\ op = "encode" /\ pc = "bins" /\ err = NoErr /\ Len(bins) = 1
    /\ bins[1].value = StringV(<<97, 98, 99, 100, 101, 102, 103, 104>>)
    /\ touched.field # 0
    /\ IsBytesKind(fields[touched.field].kind) /\ fields[touched.field].itemsize = 4
    /\ SubSeq(data, 8, 13) = <<0, 97, 98, 99, 100, Foreign>>

\* C7: writing Nil into a field of any kind and width returns no error and
\* leaves every byte of the data buffer (and of the other buffers) unchanged;
\* field bytes that were zero stay zero.
C7_NilNoWrite ==
    [][(WroteBin /\ LastBin.value.tag = "Nil" /\ WIdx # 0) =>
         /\ err' = NoErr /\ pc' = "bins"
         /\ data' = data /\ meta' = meta /\ rc' = rc]_vars

\* Nil was written into a field another bin had filled before: the bytes stay
C7_Witness ==
    /\ op = "encode" /\ pc = "bins" /\ err = NoErr /\ Len(bins) = 2
    /\ bins[2].value = Nil /\ touched.field # 0 /\ touched.at = {}
    /\ fields[touched.field].itemsize > 0
    /\ data[fields[touched.field].offset + 1] # 0

\* C8: a bin whose name matches no field of the dtype is skipped: the step
\* returns no error, the loop goes on, and no byte of the data, meta or
\* result-code buffer and no key_map entry changes, so the row is the one the
\* record without that bin gives.
C8_UnknownBinSkipped ==
    [][(WroteBin /\ \A k \in 1..Len(fields) : fields[k].name # LastBin.name) =>
         /\ err' = NoErr /\ pc' = "bins" /\ i' = i
         /\ data' = data /\ meta' = meta /\ rc' = rc /\ key_map' = key_map
         /\ wcount' = wcount /\ touched'.at = {}]_vars

\* the bin "extra" of a record was skipped after a bin that was written, and
\* the encode went on to return its result
C8_Witness ==
    /\ op = "encode" /\ pc = "done" /\ ret = "NumpyBatchRecords"
    /\ Len(bins) = 2 /\ bins[2].name = NmExtra /\ bins[2].value # Nil
    /\ \A k \in 1..Len(fields) : fields[k].name # NmExtra
    /\ \E k \in 1..Len(fields) : fields[k].name = bins[1].name
    /\ \E p \in 1..DataLen : data[p] # 0

\* the combinations of field and value the write accepts
Numeric(f) == f.kind \in {"Int", "Uint", "Float"}
Allowed(f, v) ==
    \/ v.tag = "Nil"
    \/ v.tag \in {"Int", "Bool", "Float"} /\ Numeric(f)
    \/ v.tag \in {"String", "Blob"} /\ f.kind \in {"FixedBytes", "VoidBytes"}
    \/ v.tag = "Blob" /\ Numeric(f) /\ f.itemsize > f.base_itemsize

\* C9: the write of a value into a field succeeds only for the allowed
\* combinations; every other combination fails with a TypeError that names
\* the field, and writes no byte.
C9_TypeMismatch ==
    [][(WroteBin /\ WIdx # 0) =>
         /\ (err' = NoErr => Allowed(WField, LastBin.value))
         /\ (~Allowed(WField, LastBin.value) =>
               /\ err'.exc = "TypeError" /\ err'.field = WField.name
               /\ pc' = "failed" /\ data' = data /\ wcount' = wcount)]_vars

\* a Blob was refused by a scalar numeric field
C9_Witness ==
    /\ op = "encode" /\ pc = "failed" /\ Len(bins) = 1
    /\ bins[1].value.tag = "Blob"
    /\ err.msg = "cannot write bytes to numeric field" /\ err.field = bins[1].name
    /\ \A p \in 1..DataLen : data[p] = 0

\* ------------------------------------------------------- failing writes

\* the field's base width is one the scalar write of that kind supports
WidthOk(f) ==
    IF f.kind = "Float" THEN f.base_itemsize \in {2, 4, 8}
    ELSE f.base_itemsize \in {1, 2, 4, 8}

\* the write of v into f is a scalar write into a field of an unsupported width
BadWidth(f, v) == v.tag \in {"Int", "Bool", "Float"} /\ Numeric(f) /\ ~WidthOk(f)

\* the encode failed at a bin of some row
FailedAtBin == op = "encode" /\ pc = "failed" /\ bins # <<>>

\* C10 as stated: if coercing a (bin, value) pair fails, encode stops at that
\* pair and returns an error that identifies the field (and the value), and
\* returns no result.
C10_ErrorIdentifiesPair ==
    FailedAtBin =>
      /\ ret = "none"
      /\ err.exc = "TypeError" /\ err.field = bins[Len(bins)].name

\* C10 amended: if coercing a (bin, value) pair of any row fails, encode stops
\* at that pair, writes nothing for it, takes no further step (no later bin
\* or row) and returns no result but the error: a TypeError that names the
\* field when the value's type does not fit the field's kind, and that gives
\* only the unsupported width, not the field, when the field's base width is
\* unsupported; no error carries the value.
C10_FailStops ==
    [][/\ pc # "failed"
       /\ (WroteBin /\ WIdx # 0
             /\ (~Allowed(WField, LastBin.value) \/ BadWidth(WField, LastBin.value))) =>
            /\ pc' = "failed" /\ ret' = "none" /\ i' = i
            /\ data' = data /\ wcount' = wcount
            /\ err'.exc = "TypeError"
            /\ IF ~Allowed(WField, LastBin.value)
               THEN err'.field = WField.name
               ELSE err'.field = <<>> /\ err'.num = WField.base_itemsize]_vars

\* the encode of a two-row batch failed at a bin of its first row
C10_Witness ==
    /\ FailedAtBin /\ n = 2 /\ i = 0 /\ ret = "none"
    /\ err.exc = "TypeError" /\ err.field = bins[Len(bins)].name

\* ------------------------------------------------------- round trip

\* index of the dtype's field of that name (the names of a dtype are distinct)
FieldOf(name) == CHOOSE k \in 1..Len(fields) : fields[k].name = name

\* the decode that followed the encode returned its records
Decoded == op = "decode" /\ pc = "done" /\ ret = "records" /\ Len(records) = 1

\* the value the decode gave for the bin of that name
HasBin(name)   == \E q \in 1..Len(records[1].bins) : records[1].bins[q].name = name
DecodedOf(name) ==
    LET q == CHOOSE q \in 1..Len(records[1].bins) : records[1].bins[q].name = name
    IN  records[1].bins[q].value

\* the i64 fits a signed / an unsigned integer of w bytes
FitsSigned(b, w) ==
    \A j \in (w + 1)..8 : b[j] = (IF b[w] >= 128 THEN 255 ELSE 0)
FitsUnsigned(b, w) == \A j \in (w + 1)..8 : b[j] = 0

\* the f64 (not a NaN) is a value of the IEEE-754 format with eb exponent and
\* mb fraction bits
ExactIn(bytes, eb, mb) ==
    LET bits == BytesToBits(bytes)
        E    == BitsToNat(SubSeq(bits, 2, 12))
        frac == SubSeq(bits, 13, 64)
        e    == E - 1023
        emin == 2 - 2 ^ (eb - 1)
        emax == 2 ^ (eb - 1) - 1
        \* fraction bits the target has for a number of exponent e
        keep == IF e >= emin THEN mb ELSE mb - (emin - e)
    IN  IF E = 2047 THEN AllZero(frac)
        ELSE IF E = 0 THEN AllZero(frac)
        ELSE /\ e <= emax /\ keep >= 0
             /\ \A q \in (keep + 1)..52 : frac[q] = 0

\* no narrowing can lose information when v is written into f
NoNarrowing(f, v) ==
    \/ v.tag = "Int" /\ f.kind = "Int" /\ FitsSigned(v.data, f.base_itemsize)
    \/ v.tag = "Int" /\ f.kind = "Uint" /\ FitsUnsigned(v.data, f.base_itemsize)
    \/ /\ v.tag = "Float" /\ v.fw = 64 /\ f.kind = "Float"
       /\ \/ f.base_itemsize = 8
          \/ f.base_itemsize = 4 /\ ExactIn(v.data, 8, 23)
          \/ f.base_itemsize = 2 /\ ExactIn(v.data, 5, 10)
    \/ v.tag \in {"String", "Blob"} /\ Len(v.data) <= f.itemsize

\* the value is stored exactly and read back with its own type
Exact(f, v) ==
    \/ /\ v.tag = "Int" /\ f.kind = "Int" /\ WidthOk(f)
       /\ FitsSigned(v.data, f.base_itemsize)
    \/ /\ v.tag = "Int" /\ f.kind = "Uint" /\ WidthOk(f)
       /\ f.base_itemsize = 8 \/ FitsUnsigned(v.data, f.base_itemsize)
    \/ /\ v.tag = "Float" /\ v.fw = 64 /\ f.kind = "Float"
       /\ \/ f.base_itemsize = 8
          \/ f.base_itemsize = 4 /\ ExactIn(v.data, 8, 23)
          \/ f.base_itemsize = 2 /\ ExactIn(v.data, 5, 10)
    \/ v.tag = "Blob" /\ IsBytesKind(f.kind) /\ Len(v.data) = f.itemsize

\* the bytes the encode writes for v in f, and the bytes the decode reads of f
WriteSpan(f, v) ==
    CASE v.tag = "Nil" -> {}
      [] v.tag \in {"String", "Blob"} ->
           Span(f.offset, IF Len(v.data) < f.itemsize THEN Len(v.data) ELSE f.itemsize)
      [] OTHER -> Span(f.offset, f.base_itemsize)
ReadSpan(f) ==
    Span(f.offset, IF Numeric(f) THEN f.base_itemsize ELSE f.itemsize)

\* no bin the record iterated after bin j wrote into the bytes of bin j's field
Undisturbed(j) ==
    \A q \in (j + 1)..Len(bins) :
       WriteSpan(fields[FieldOf(bins[q].name)], bins[q].value)
         \cap ReadSpan(fields[FieldOf(bins[j].name)]) = {}

\* C4 as stated: when every bin value of the record maps onto its field's
\* kind without information-losing narrowing, the decode of the encoded
\* buffer gives, for every field in both the record and the dtype, a value
\* equal to the bin's.
C4_RoundTrip ==
    (Decoded /\ \A j \in 1..Len(bins) :
                  /\ Allowed(fields[FieldOf(bins[j].name)], bins[j].value)
                  /\ NoNarrowing(fields[FieldOf(bins[j].name)], bins[j].value)) =>
      \A j \in 1..Len(bins) :
         HasBin(bins[j].name) /\ DecodedOf(bins[j].name) = bins[j].value

\* C4 amended: the decode of the encoded buffer gives a value equal to the
\* bin's for every bin that is an Int in a signed integer field that holds it
\* (or an unsigned one that holds it, or is 8 bytes wide), a 64-bit Float in a
\* float field whose format represents it exactly (any at 8 bytes, no NaN at
\* 2 or 4), or a Blob of exactly itemsize bytes in a bytes field, provided the
\* field is one the decode returns as a bin (not the key field, no leading
\* underscore), its base width is within its itemsize, and no later bin of
\* the record wrote into its bytes.
C4_RoundTripExact ==
    Decoded =>
      \A j \in 1..Len(bins) :
         LET f == fields[FieldOf(bins[j].name)]
         IN  (/\ Exact(f, bins[j].value)
              /\ f.name # key_field /\ ~starts_with_underscore(f.name)
              /\ (Numeric(f) => f.base_itemsize <= f.itemsize)
              /\ Undisturbed(j)) =>
               HasBin(f.name) /\ DecodedOf(f.name) = bins[j].value

\* Int(-129) went through a 2-byte signed field and came back equal
C4_Witness ==
    /\ Decoded /\ Len(bins) = 1 /\ bins[1].name = NmX
    /\ bins[1].value = IntV(I64(-129))
    /\ fields[FieldOf(NmX)].kind = "Int" /\ fields[FieldOf(NmX)].base_itemsize = 2
    /\ DecodedOf(NmX) = IntV(I64(-129))

\* ------------------------------------------------------- encode results

\* the encode returned its NumpyBatchRecords
EncodeDone == op = "encode" /\ pc = "done" /\ ret = "NumpyBatchRecords"

\* the dict key of row r (0-based): the user key, or the row index without one
RowKey(r) ==
    IF results[r + 1].has_key THEN value_to_py(results[r + 1].user_key)
    ELSE index_to_py(r)

\* C11 as stated: after a successful encode of n rows the key map associates,
\* for every row i, the row's key value (the integer i for a row without a
\* key value) with i.
C11_EveryRowMapped ==
    EncodeDone =>
      \A r \in 0..(n - 1) : [key |-> RowKey(r), idx |-> r] \in key_map

\* C11 amended: after a successful encode of n rows the key map holds exactly
\* the rows' key values (the integer i for a row i without a key value), each
\* associated with the greatest row index that has that key; so a row's key
\* maps to the row itself unless a later row has an equal key.
C11_LastRowOfKey ==
    EncodeDone =>
      /\ Len(results) = n
      /\ key_map = { [key |-> RowKey(r), idx |-> r] :
                       r \in { q \in 0..(n - 1) :
                                 \A p \in (q + 1)..(n - 1) : RowKey(p) # RowKey(q) } }

\* two rows, the first with the user key 1 and the second without a key, so
\* with the fallback key 1: the map holds the one entry 1 -> 1
C11_Witness ==
    /\ EncodeDone /\ n = 2
    /\ results[1].has_key /\ results[1].user_key = IntV(I64(1))
    /\ ~results[2].has_key
    /\ key_map = {[key |-> index_to_py(1), idx |-> 1]}

\* row r (0-based) has a success code and a record
RowCode(r) ==
    IF results[r + 1].result_code = "None" THEN 0
    ELSE result_code_to_int(results[r + 1].result_code)
Filled(r) == RowCode(r) = 0 /\ results[r + 1].has_record

MetaSlice(r) == SubSeq(meta, r * 8 + 1, r * 8 + 8)
DataSlice(r) == SubSeq(data, r * row_stride + 1, (r + 1) * row_stride)

\* C12: for every row i, generation is at meta[i*8 .. i*8+4) and ttl at
\* meta[i*8+4 .. i*8+8), 0xFFFFFFFF for a record that never expires, when
\* the row has a success code and a record; the data slice and the meta
\* slice of any other row are fully zero.
C12_OnlyFilledRowsWritten ==
    EncodeDone =>
      \A r \in 0..(n - 1) :
         IF Filled(r)
         THEN MetaSlice(r) =
                results[r + 1].generation
                  \o (IF results[r + 1].has_ttl
                      THEN SubSeq(results[r + 1].secs, 1, 4)
                      ELSE <<255, 255, 255, 255>>)
         ELSE /\ MetaSlice(r) = Rep(0, 8)
              /\ DataSlice(r) = Rep(0, row_stride)

\* the 4 bytes at rc[r*4], and the bytes of the 4-byte signed integer c
RcSlice(r) == SubSeq(rc, r * 4 + 1, r * 4 + 4)
CodeBytes(c) == <<c % 256, (c \div 256) % 256, (c \div 65536) % 256,
                  (c \div 16777216) % 256>>

KeyFieldAbsent ==
    /\ op = "decode" /\ pc \notin {"start", "parsed"} /\ ~ParseFailed
    /\ \A k \in 1..Len(fields) : fields[k].name # key_field

\* C14: a decode whose key field name is absent from the (parsed) dtype fails
\* with the missing-key-field error before any row is read, for every row
\* count n, 0 included, and returns no records.
C14_MissingKeyField ==
    KeyFieldAbsent =>
      /\ pc = "failed" /\ ret = "none"
      /\ err.exc = "ValueError" /\ err.msg = "dtype must contain a key field"
      /\ err.field = key_field
      /\ records = <<>> /\ cur = NoRow /\ touched = NoTouch /\ i = 0

\* the decode of an empty array whose dtype has fields but not the key field
C14_Witness ==
    /\ KeyFieldAbsent /\ n = 0 /\ pc = "failed" /\ Len(fields) > 0

\* the parsed dtype has a field of this name
HasField(name) == \E k \in 1..Len(fields) : fields[k].name = name

\* the rows decoded so far, in order
Rows == 1..Len(records)

\* C15: without a `_namespace` field every decoded row's Key carries the
\* caller's default namespace, and without a `_set` field the default set:
\* both defaults when both fields are absent, the one default when one is.
C15_Defaults ==
    \A r \in Rows :
      /\ ~HasField(NmNamespace) => records[r].key.namespace = namespace
      /\ ~HasField(NmSet) => records[r].key.set_name = set_name

\* two rows decoded from a dtype with a key field and neither reserved field
C15_Witness ==
    /\ ret = "records" /\ Len(records) = 2
    /\ HasField(key_field) /\ ~HasField(NmNamespace) /\ ~HasField(NmSet)
    /\ records[2].key.namespace = StrTest /\ records[2].key.set_name = StrDemo

\* the bytes of field f in row r (1-based) of the array
FieldBytes(r, f) == SubSeq(data, (r - 1) * row_stride + f.offset + 1,
                           (r - 1) * row_stride + f.offset + f.itemsize)

RECURSIVE TrimZeros(_)
\* b without its trailing run of zero bytes
TrimZeros(b) ==
    IF b = <<>> \/ b[Len(b)] # 0 THEN b ELSE TrimZeros(SubSeq(b, 1, Len(b) - 1))

\* the fixed-byte fields of this name
FixedByteFields(name) ==
    {k \in 1..Len(fields) : fields[k].name = name /\ fields[k].kind = "FixedBytes"}

\* C16 as stated: with a fixed-byte `_namespace` (`_set`) field, the row's
\* namespace (set) is the field's bytes without the trailing run of zero
\* bytes: zero bytes before the last non-zero byte are kept, and an all-zero
\* field gives the empty string, not the default.
C16_TrimmedBytes ==
    \A r \in Rows :
      /\ \A k \in FixedByteFields(NmNamespace) :
           records[r].key.namespace = TrimZeros(FieldBytes(r, fields[k]))
      /\ \A k \in FixedByteFields(NmSet) :
           records[r].key.set_name = TrimZeros(FieldBytes(r, fields[k]))

\* C16 amended: the namespace (set) is the lossy UTF-8 text of those trimmed
\* bytes: a byte that is not valid UTF-8 is replaced by U+FFFD, and a field
\* of ASCII bytes gives exactly the trimmed bytes.
C16_TrimmedLossy ==
    \A r \in Rows :
      /\ \A k \in FixedByteFields(NmNamespace) :
           LET t == TrimZeros(FieldBytes(r, fields[k]))
           IN  /\ records[r].key.namespace = from_utf8_lossy(t)
               /\ (\A q \in 1..Len(t) : t[q] < 128) => records[r].key.namespace = t
      /\ \A k \in FixedByteFields(NmSet) :
           LET t == TrimZeros(FieldBytes(r, fields[k]))
           IN  /\ records[r].key.set_name = from_utf8_lossy(t)
               /\ (\A q \in 1..Len(t) : t[q] < 128) => records[r].key.set_name = t

\* a namespace field holding 0 99 99 0 in the first row and zeros in the second
C16_Witness ==
    /\ ret = "records" /\ Len(records) = 2
    /\ \E k \in FixedByteFields(NmNamespace) :
         /\ FieldBytes(1, fields[k]) = <<0, 99, 99, 0>>
         /\ FieldBytes(2, fields[k]) = <<0, 0, 0, 0>>
    /\ records[1].key.namespace = <<0, 99, 99>>
    /\ records[2].key.namespace = <<>> /\ namespace # <<>>

\* the fields that are neither the key field nor named with a leading `_`
PublicFields ==
    {k \in 1..Len(fields) : fields[k].name # key_field /\ Head(fields[k].name) # 95}

\* the j-th of them in schema order
PublicField(j) ==
    CHOOSE k \in PublicFields : Cardinality({q \in PublicFields : q < k}) = j - 1

\* C17: every decoded row has exactly one bin per field that is neither the
\* key field nor named with a leading `_`, in schema order, each with the
\* field's name and the value read from the field in that row; no other
\* field appears as a bin.
C17_BinsAreThePublicFields ==
    \A r \in Rows :
      /\ Len(records[r].bins) = Cardinality(PublicFields)
      /\ \A j \in 1..Len(records[r].bins) :
           LET f == fields[PublicField(j)]
           IN  /\ records[r].bins[j].name = f.name
               /\ records[r].bins[j].value =
                    read_value_from_buffer(data, (r - 1) * row_stride, f).value
               /\ records[r].bins[j].name # key_field
               /\ Head(records[r].bins[j].name) # 95

\* two rows of a six-field dtype decoded to the bins b and a, in that order
C17_Witness ==
    /\ ret = "records" /\ Len(records) = 2 /\ Len(fields) = 6
    /\ HasField(NmAux) /\ HasField(NmNamespace)
    /\ Len(records[2].bins) = 2
    /\ records[2].bins[1].name = NmB /\ records[2].bins[2].name = NmA

\* C18: the user key of a decoded row whose key field is a fixed-byte field
\* is the field's content without its trailing zero padding.
C18_KeyTrimmed ==
    \A r \in Rows :
      \A k \in FixedByteFields(key_field) :
        records[r].key.user_key.data = TrimZeros(FieldBytes(r, fields[k]))

\* the decode has just read field k of row i: its key, or one of its bins
JustRead(k) ==
    /\ op = "decode" /\ touched.field = k
    /\ \/ pc = "ns"
       \/ pc = "rbins" /\ k \in PublicFields /\ cur.bins # <<>>

\* the value that read returned
ValueRead == IF pc = "ns" THEN cur.key_value ELSE cur.bins[Len(cur.bins)].value

\* the value has the type of the field's kind; a byte field gives all its bytes
TypedAs(v, f, r) ==
    CASE f.kind \in {"FixedBytes", "VoidBytes"} ->
           v = BlobV(FieldBytes(r, f)) /\ Len(v.data) = f.itemsize
      [] f.kind \in {"Int", "Uint"} -> v.tag = "Int" /\ Len(v.data) = 8
      [] f.kind = "Float" -> v.tag = "Float" /\ Len(v.data) = 8
      [] OTHER -> FALSE

\* the widths a scalar read handles
ReadableWidth(f) ==
    CASE f.kind \in {"Int", "Uint"} -> f.base_itemsize \in {1, 2, 4, 8}
      [] f.kind = "Float" -> f.base_itemsize \in {2, 4, 8}
      [] OTHER -> TRUE

\* C19 as stated: a read of a byte field yields a Blob of exactly its itemsize
\* bytes, untrimmed; a read of an integer field yields an Int and a read of a
\* float field a Float.
C19_ReadYieldsTyped ==
    \A k \in 1..Len(fields) :
      (op = "decode" /\ touched.field = k /\ pc # "crashed") =>
        /\ err = NoErr
        /\ JustRead(k) => TypedAs(ValueRead, fields[k], i + 1)

\* C19 amended: the same for every field of a width the read handles; a read
\* of a float (integer) field of another width yields no value and fails
\* with a TypeError that gives the width.
C19_ReadTypedOrUnsupported ==
    \A k \in 1..Len(fields) :
      (op = "decode" /\ touched.field = k /\ pc # "crashed") =>
        IF ReadableWidth(fields[k])
        THEN /\ err = NoErr
             /\ JustRead(k) => TypedAs(ValueRead, fields[k], i + 1)
        ELSE /\ pc = "failed" /\ err.exc = "TypeError"
             /\ err.num = fields[k].base_itemsize
             /\ err.msg \in {"unsupported int size", "unsupported uint size",
                             "unsupported float size"}

\* the key bytes 99 99 0 0 read as a 4-byte Blob, then an Int and an all-zero
\* 2-byte Blob
C19_Witness ==
    /\ op = "decode" /\ pc = "rbins" /\ Len(cur.bins) = 2 /\ JustRead(3)
    /\ cur.key_value = BlobV(<<99, 99, 0, 0>>)
    /\ cur.bins[1].value.tag = "Int" /\ fields[2].kind = "Int"
    /\ cur.bins[2].value = BlobV(<<0, 0>>) /\ fields[3].kind = "FixedBytes"

\* ------------------------------------------------------- half precision

\* the step wrote a Float into a float field of base width 2
HalfWrite ==
    /\ WroteBin /\ LastBin.value.tag = "Float" /\ WIdx # 0
    /\ WField.kind = "Float" /\ WField.base_itemsize = 2
    /\ WField.itemsize = 2

\* the f64 written, and the two bytes the field holds after the step
Written == IF LastBin.value.fw = 64 THEN LastBin.value.data
           ELSE F32ToF64(LastBin.value.data)
Stored  == SubSeq(data', WDst + 1, WDst + 2)

Dbl1p5  == <<0, 0, 0, 0, 0, 0, 248, 63>>
DblNaN  == <<0, 0, 0, 0, 0, 0, 248, 127>>
DblInf  == <<0, 0, 0, 0, 0, 0, 240, 127>>

\* the biased exponent of an f64
DblExp(b) == (b[8] % 128) * 16 + (b[7] \div 16)

\* a positive f64 below 2^-14, the smallest normal half
BelowNormalHalf(b) ==
    /\ b[8] < 128 /\ DblExp(b) < 1009
    /\ \E j \in 1..8 : b[j] # 0

\* an f64 in [2^-14 - 2^-25, 2^-14): no subnormal half is nearer than 2^-14
NearNormalHalf(b) ==
    /\ b[8] < 128 /\ DblExp(b) = 1008
    /\ b[7] % 16 = 15 /\ b[6] >= 252

\* a half that is NaN; a half that is a positive subnormal or +0
HalfNaN(h)       == (h[2] % 128) \div 4 = 31 /\ (h[2] % 4 # 0 \/ h[1] # 0)
HalfSubOrZero(h) == h[2] < 4

\* the decode of a record whose only bin is Float(1.5) in the 2-byte float
\* field x gives 1.5
HalfRoundTrip ==
    (/\ Decoded /\ Len(bins) = 1 /\ bins[1].name = NmX
     /\ bins[1].value.tag = "Float"
     /\ bins[1].value \in {F64V(Dbl1p5), F32V(<<0, 0, 192, 63>>)}
     /\ fields[FieldOf(NmX)].kind = "Float"
     /\ fields[FieldOf(NmX)].base_itemsize = 2
     /\ fields[FieldOf(NmX)].itemsize = 2) =>
       HasBin(NmX) /\ DecodedOf(NmX) = F64V(Dbl1p5)

\* NaN and +Infinity are stored as a half NaN and the half +Infinity
HalfSpecials ==
    [][HalfWrite =>
         /\ err' = NoErr
         /\ Written = DblNaN => HalfNaN(Stored)
         /\ Written = DblInf => Stored = <<0, 124>>]_vars

\* C20 as stated: Float(1.5) through a 2-byte float field decodes to 1.5; NaN
\* and +Infinity are stored as a half NaN and +Infinity; a positive value
\* below the smallest normal half is stored as a subnormal half or zero.
C20_HalfPrecision ==
    /\ []HalfRoundTrip
    /\ HalfSpecials
    /\ [][(HalfWrite /\ BelowNormalHalf(Written)) => HalfSubOrZero(Stored)]_vars

\* C20 amended: the same, except that a positive value below the smallest
\* normal half is stored as the half nearest to it (ties to even): a
\* subnormal or zero (3e-5 as 503 * 2^-24, 5.96e-8 as 2^-24, 1e-8 as 0), or
\* the smallest normal half 2^-14 exactly when the value is at most 2^-25
\* below it.
C20_HalfNearest ==
    /\ []HalfRoundTrip
    /\ HalfSpecials
    /\ [][(HalfWrite /\ BelowNormalHalf(Written)) =>
            /\ IF NearNormalHalf(Written) THEN Stored = <<0, 4>>
               ELSE HalfSubOrZero(Stored)
            /\ Written = <<105, 29, 85, 77, 16, 117, 255, 62>> => Stored = <<247, 1>>
            /\ Written = <<219, 34, 149, 147, 92, 255, 111, 62>> => Stored = <<1, 0>>
            /\ Written = <<58, 140, 48, 226, 142, 121, 69, 62>> => Stored = <<0, 0>>]_vars

\* Float(1.5) was stored as the half 0x3E00 and decoded as 1.5
C20_Witness ==
    /\ Decoded /\ bins = <<[name |-> NmX, value |-> F64V(Dbl1p5)]>>
    /\ fields[FieldOf(NmX)].kind = "Float" /\ fields[FieldOf(NmX)].base_itemsize = 2
    /\ SubSeq(data, fields[FieldOf(NmX)].offset + 1, fields[FieldOf(NmX)].offset + 2)
         = <<0, 62>>
    /\ DecodedOf(NmX) = F64V(Dbl1p5)

\* ------------------------------------------------------- row independence

\* a step of the encode loop for row i
RowStep == op = "encode" /\ pc \in {"loop", "bins"} /\ i < n

\* the offsets where the buffer differs after the step
Changed(before, after) == {k \in 0..(Len(before) - 1) : after[k + 1] # before[k + 1]}

\* C21: the encode of row i writes only inside row i's slices
\* data[i*row_stride, (i+1)*row_stride), meta[i*8, i*8+8) and rc[i*4, i*4+4).
C21_RowLocalWrites ==
    [][RowStep =>
         /\ Changed(data, data') \subseteq Span(i * row_stride, row_stride)
         /\ touched'.at \subseteq Span(i * row_stride, row_stride)
         /\ Changed(meta, meta') \subseteq Span(i * 8, 8)
         /\ Changed(rc, rc') \subseteq Span(i * 4, 4)]_vars

\* ------------------------------------------------------- write once, read never

\* the bytes a write (or read) of field f can move, relative to the row
Footprint(f) == Span(f.offset, IF Numeric(f) THEN f.base_itemsize ELSE f.itemsize)

\* the fields' footprints lie within the row and are pairwise disjoint
DisjointFootprints ==
    /\ \A k \in 1..Len(fields) : Footprint(fields[k]) \subseteq 0..(row_stride - 1)
    /\ \A j, k \in 1..Len(fields) :
         j # k => Footprint(fields[j]) \cap Footprint(fields[k]) = {}

\* the write of a bin gives the same bytes, the same error and the same extent
\* on a buffer of other content, and leaves every byte outside its extent
WriteReadsNothing ==
    [][(WroteBin /\ WIdx # 0) =>
         LET other == write_value_to_buffer(Rep(85, Len(data)), i * row_stride, WField,
                                            LastBin.value)
         IN  /\ other.err = err' /\ other.touched = touched'.at
             /\ \A k \in 1..Len(data) :
                  data'[k] = IF (k - 1) \in touched'.at THEN other.mem[k] ELSE data[k]]_vars

\* no byte of the data buffer has been written more than once
WrittenOnce == \A k \in 1..Len(wcount) : wcount[k] <= 1

SizeError(e, f) ==
    /\ e.exc = "TypeError" /\ e.num = f.base_itemsize
    /\ e.msg = (CASE f.kind = "Int" -> "unsupported int size"
                  [] f.kind = "Uint" -> "unsupported uint size"
                  [] OTHER -> "unsupported float size")

\* every read of a field of an unsupported width fails with the size error,
\* and no step of a decode changes a buffer
ReadOfBadWidthFails ==
    /\ [](\A k \in 1..Len(fields) :
            (op = "decode" /\ touched.field = k /\ ~ReadableWidth(fields[k])) =>
               pc = "failed" /\ SizeError(err, fields[k]))
    /\ [][op = "decode" => data' = data /\ meta' = meta /\ rc' = rc]_vars

ReadFailed(k) == op = "decode" /\ pc = "failed" /\ touched.field = k /\ k # 0

\* the fields a decoded row is read from
FieldsRead ==
    {k \in 1..Len(fields) :
       fields[k].name = key_field \/ k \in PublicFields
         \/ fields[k].name \in {NmNamespace, NmSet}}

\* a failed read ends the call with no list of records, and no decode of a
\* row returns records past a field that cannot be read
ReadErrorAborts ==
    /\ [](\A k \in 1..Len(fields) : ReadFailed(k) => ret = "none")
    /\ []((op = "decode" /\ ret = "records" /\ n > 0) =>
            \A k \in FieldsRead : ReadableWidth(fields[k]))
    /\ [][~(op = "decode" /\ pc = "failed")]_vars

\* C24 as stated: a read error aborts the decode, and the error identifies
\* the failing field and the row index.
C24_ErrorIdentifiesFieldAndRow ==
    /\ ReadErrorAborts
    /\ [](\A k \in 1..Len(fields) :
            ReadFailed(k) => err.field = fields[k].name /\ err.num = i)

\* C24 amended: a read error aborts the decode; the error is the read's
\* TypeError, which gives the unsupported width and neither the field nor
\* the row.
C24_ErrorAborts ==
    /\ ReadErrorAborts
    /\ [](\A k \in 1..Len(fields) :
            ReadFailed(k) => err.field = <<>> /\ SizeError(err, fields[k]))

\* the read of the long double bin a of the first of two rows failed
C24_Witness ==
    /\ ReadFailed(2) /\ n = 2 /\ i = 0 /\ ret = "none" /\ records = <<>>
    /\ fields[2].name = NmA /\ err.msg = "unsupported float size" /\ err.num = 16

\* ------------------------------------------------------- float to integer

\* an f64 of magnitude below 2^29
SmallFloat(b) == DblExp(b) - 1023 <= 28

\* the integer part of such an f64: the leading one and the first e fraction
\* bits, with the sign
TruncInt(b) ==
    LET e   == DblExp(b) - 1023
        top == (b[7] % 16) * 16777216 + b[6] * 65536 + b[5] * 256 + b[4]
        mag == IF e < 0 THEN 0 ELSE 2 ^ e + top \div (2 ^ (28 - e))
    IN  IF b[8] >= 128 THEN 0 - mag ELSE mag

\* the integer m is a value of the integer field f
FitsField(m, f) ==
    LET w == f.base_itemsize
    IN  IF f.kind = "Int"
        THEN w >= 4 \/ (m >= 0 - 2 ^ (8 * w - 1) /\ m < 2 ^ (8 * w - 1))
        ELSE m >= 0 /\ (w >= 4 \/ m < 2 ^ (8 * w))

\* byte j (1 is the least significant) of m in two's complement
TwosByte(m, j) ==
    IF m >= 0 THEN (IF j <= 4 THEN (m \div 256 ^ (j - 1)) % 256 ELSE 0)
    ELSE (IF j <= 4 THEN 255 - (((0 - m - 1) \div 256 ^ (j - 1)) % 256) ELSE 255)

\* C25: writing Float(x) into a signed or unsigned integer field of base
\* width 1, 2, 4 or 8 stores the integer part of x (x truncated toward zero),
\* for every finite x whose integer part is a value of the field.
C25_FloatTruncates ==
    [][(WroteBin /\ LastBin.value.tag = "Float" /\ IsIntField
          /\ WField.base_itemsize \in {1, 2, 4, 8}
          /\ SmallFloat(Written) /\ FitsField(TruncInt(Written), WField)) =>
         /\ err' = NoErr /\ pc' # "failed"
         /\ \A j \in 1..WField.base_itemsize :
              data'[WDst + j] = TwosByte(TruncInt(Written), j)]_vars

\* Float(-2.9) was written into the 2-byte signed field x, which holds -2
C25_Witness ==
    /\ op = "encode" /\ pc = "bins" /\ err = NoErr
    /\ bins = <<[name |-> NmX,
                 value |-> F64V(<<51, 51, 51, 51, 51, 51, 7, 192>>)]>>
    /\ touched.field # 0
    /\ fields[touched.field].kind = "Int" /\ fields[touched.field].base_itemsize = 2
    /\ SubSeq(data, fields[touched.field].offset + 1,
              fields[touched.field].offset + 2) = <<254, 255>>

\* ------------------------------------------------------- key collisions

\* the rows (0-based) whose dict key equals that of row q
SameKey(q) == {r \in 0..(n - 1) : RowKey(r) = RowKey(q)}

\* C26: when two rows have equal key values (a user key twice, or a user key
\* equal to the index of a row without a key), the key map holds one entry
\* for that key, its value is the largest of those row indices, the map has
\* fewer than n entries, and the earlier rows are not reachable through it.
C26_CollidingKeys ==
    EncodeDone =>
      \A q \in 0..(n - 1) :
        Cardinality(SameKey(q)) > 1 =>
          LET last == CHOOSE r \in SameKey(q) : \A p \in SameKey(q) : p <= r
          IN  /\ {e \in key_map : e.key = RowKey(q)} = {[key |-> RowKey(q), idx |-> last]}
              /\ Cardinality(key_map) < n
              /\ \A r \in SameKey(q) \ {last} : \A e \in key_map : e.idx # r

\* two rows with the user key 1: the map holds the one entry 1 -> 1
C26_Witness ==
    /\ EncodeDone /\ n = 2
    /\ results[1].has_key /\ results[2].has_key
    /\ results[1].user_key = IntV(I64(1)) /\ results[2].user_key = IntV(I64(1))
    /\ key_map = {[key |-> value_to_py(IntV(I64(1))), idx |-> 1]}

\* ------------------------------------------------------- order of the bins

\* the encode is in the bins loop of row i, every write so far accepted
Writing == op = "encode" /\ pc = "bins"

\* the bins written so far that a field of the dtype takes
Taken == {j \in 1..Len(bins) : HasField(bins[j].name)}
BinField(j) == fields[FieldOf(bins[j].name)]

\* the buffer after the write of bin j alone into a zeroed buffer
OwnBytes(j) ==
    write_value_to_buffer(Rep(0, Len(data)), i * row_stride, BinField(j), bins[j].value).mem

\* the offsets the write of bin j stores to
WriteRange(j) == {i * row_stride + o : o \in WriteSpan(BinField(j), bins[j].value)}

\* every field's footprint lies within the row
FootprintsInRow ==
    \A k \in 1..Len(fields) : Footprint(fields[k]) \subseteq 0..(row_stride - 1)

\* the fields' byte ranges [offset, offset + itemsize) are pairwise disjoint
DisjointRanges ==
    \A j, k \in 1..Len(fields) :
      j # k => FieldRange(0, fields[j]) \cap FieldRange(0, fields[k]) = {}

\* with disjoint ranges the write of the step's bin and an accepted write to
\* any other field give the same buffer in either order
WritesCommute ==
    [][(WroteBin /\ WIdx # 0 /\ err' = NoErr /\ DisjointRanges) =>
         \A k \in (1..Len(fields)) \ {WIdx} : \A v \in BatchValues :
           LET first == write_value_to_buffer(data, i * row_stride, fields[k], v)
               then  == write_value_to_buffer(first.mem, i * row_stride, WField,
                                              LastBin.value)
               after == write_value_to_buffer(data', i * row_stride, fields[k], v)
           IN  first.err = NoErr => then.mem = after.mem]_vars

UnsignedX(w) ==
    /\ Decoded /\ HasField(NmX) /\ HasBin(NmX)
    /\ fields[FieldOf(NmX)].kind = "Uint"
    /\ fields[FieldOf(NmX)].base_itemsize = w /\ fields[FieldOf(NmX)].itemsize = w

\* the bytes the field x holds
StoredX == SubSeq(data, fields[FieldOf(NmX)].offset + 1,
                  fields[FieldOf(NmX)].offset + fields[FieldOf(NmX)].base_itemsize)

\* the record's only bin is an Int for x
OnlyIntX == Len(bins) = 1 /\ bins[1].name = NmX /\ bins[1].value.tag = "Int"

\* C28: the read of an unsigned field of 1, 2 or 4 bytes gives Int(v) with v
\* the stored number, in [0, 2^(8w)); of 8 bytes, the Int with the stored 64
\* bits, negative (v - 2^64) when the stored number is 2^63 or more; an Int
\* written to an unsigned field of w bytes is stored modulo 2^(8w), so an Int
\* through an 8-byte unsigned field comes back as it was, for every i64.
C28_UnsignedReinterpreted ==
    \A w \in {1, 2, 4, 8} :
      UnsignedX(w) =>
        LET v == DecodedOf(NmX)
        IN  /\ v.tag = "Int" /\ Len(v.data) = 8
            /\ SubSeq(v.data, 1, w) = StoredX
            /\ \A j \in (w + 1)..8 : v.data[j] = 0
            /\ (w = 8 /\ StoredX[8] >= 128) => v.data[8] >= 128
            /\ OnlyIntX => \A j \in 1..w : StoredX[j] = ModByte(bins[1].value.data, j)
            /\ (OnlyIntX /\ w = 8) => v = bins[1].value

\* Int(-1) went through the 8-byte unsigned field x: stored as 2^64 - 1, read
\* back as -1
C28_Witness ==
    /\ UnsignedX(8) /\ OnlyIntX /\ bins[1].value = IntV(I64(-1))
    /\ StoredX = Rep(255, 8)
    /\ DecodedOf(NmX) = IntV(I64(-1))

\* ------------------------------------------------------- row headers alone

\* one iteration of the loop of batch_to_batch_records_py: the PyBatchRecord
\* of a row carries the row's result code, 0 for a row without one
PushBatchRecord(h) ==
    /\ op = "list" /\ pc = "start" /\ i < n
    /\   LET result_code == IF h.result_code = "None" THEN 0
                            ELSE result_code_to_int(h.result_code)
         IN  batch_records' = Append(batch_records, result_code)
    /\ results' = Append(results, h)
    /\ i' = i + 1
    /\ UNCHANGED <<inputs, pc, fields, row_stride, allocated, data, meta, rc, key_map, br,
                   bins, touched, wcount, err, ret, cur, records>>

\* the list is handed back as PyBatchRecords
ReturnBatchRecords ==
    /\ op = "list" /\ pc = "start" /\ i = n
    /\ pc' = "done"
    /\ ret' = "BatchRecords"
    /\ UNCHANGED <<inputs, batch_records, fields, row_stride, allocated, data, meta, rc,
                   key_map, i, br, results, bins, touched, wcount, err, cur, records>>

\* 2^32 - 1, 2^32 + 5 and 2^33 - 1 seconds
SecsMax32 == <<255, 255, 255, 255, 0, 0, 0, 0>>
SecsWrap5 == <<5, 0, 0, 0, 1, 0, 0, 0>>
SecsWrapMax == <<255, 255, 255, 255, 1, 0, 0, 0>>

\* rows with and without a result code, a record, an expiry
MetaHeaders ==
    { Header("None", FALSE, Nil, TRUE, <<1, 0, 0, 0>>, FALSE, I64(0)),
      Header("Ok", FALSE, Nil, TRUE, <<1, 0, 0, 0>>, FALSE, I64(0)),
      Header("Ok", FALSE, Nil, TRUE, <<1, 0, 0, 0>>, TRUE, SecsMax32),
      Header("Ok", FALSE, Nil, TRUE, <<1, 0, 0, 0>>, TRUE, SecsWrapMax),
      Header("Ok", TRUE, IntV(I64(7)), TRUE, <<2, 0, 0, 0>>, TRUE, SecsWrap5),
      Header("None", FALSE, Nil, TRUE, <<2, 0, 0, 0>>, TRUE, I64(100)),
      Header("Ok", FALSE, Nil, TRUE, <<2, 0, 0, 0>>, TRUE, I64(100)),
      Header("None", FALSE, Nil, FALSE, <<0, 0, 0, 0>>, FALSE, I64(0)),
      Header("KeyNotFoundError", FALSE, Nil, FALSE, <<0, 0, 0, 0>>, FALSE, I64(0)) }

MetaValues == { IntV(I64(300)) }

MetaNames == {NmA, NmB}

\* an int16 and a uint8, padded to 4
MetaDtypes ==
    { Dtype(<<DField(NmA, "i", 0, 2, 2), DField(NmB, "u", 2, 1, 1)>>, 4) }

InitList(D, rows) ==
    /\ op = "list" /\ dtype \in D /\ n \in rows /\ key_field = NmKey
    /\ data = <<>> /\ wcount = <<>>

InitMeta ==
    /\ Idle
    /\ InitEncode(MetaDtypes, 0..MaxRows) \/ InitList(MetaDtypes, 0..MaxRows)

NextMeta ==
    \/ ParseDtype
    \/ Allocate
    \/ \E h \in MetaHeaders : BeginRow(h)
    \/ \E name \in MetaNames, value \in MetaValues : WriteBin(name, value)
    \/ NextRow
    \/ Construct
    \/ \E h \in MetaHeaders : PushBatchRecord(h)
    \/ ReturnBatchRecords

SpecMeta == InitMeta /\ [][NextMeta]_vars

\* the rows the encode loop has entered, and the ttl bytes of row r's meta
Entered == 0..(Len(results) - 1)
TtlSlice(r) == SubSeq(meta, r * 8 + 5, r * 8 + 8)

\* the low 32 bits of a count of seconds
Low32(secs) == SubSeq(secs, 1, 4)

NeverExpires(r) == ~results[r + 1].has_ttl
ExpiresAtMax32(r) ==
    results[r + 1].has_ttl /\ Low32(results[r + 1].secs) = Rep(255, 4)

\* C29: the ttl in the meta buffer of a row with a success code and a record
\* is the record's time-to-live in seconds modulo 2^32, and 0xFFFFFFFF when
\* the record has no expiry; so a record whose ttl is 0xFFFFFFFF modulo 2^32
\* has the same ttl bytes as a record that never expires.
C29_TtlModulo32 ==
    (op = "encode" /\ pc # "failed") =>
      /\ \A r \in Entered :
           Filled(r) =>
             TtlSlice(r) = IF NeverExpires(r) THEN Rep(255, 4)
                           ELSE Low32(results[r + 1].secs)
      /\ \A r \in Entered, q \in Entered :
           (Filled(r) /\ Filled(q) /\ ExpiresAtMax32(r) /\ NeverExpires(q))
             => TtlSlice(r) = TtlSlice(q)

\* a record living 2^33 - 1 seconds next to one that never expires, with the
\* same generation: their meta slices are equal
C29_Witness ==
    /\ EncodeDone /\ n = 2
    /\ Filled(0) /\ Filled(1)
    /\ results[1].has_ttl /\ results[1].secs = SecsWrapMax
    /\ NeverExpires(1)
    /\ MetaSlice(0) = <<1, 0, 0, 0, 255, 255, 255, 255>>
    /\ MetaSlice(0) = MetaSlice(1)

\* ------------------------------------------------------- rows without a result code

\* header h with an explicit success code
AsOk(h) == [h EXCEPT !.result_code = "Ok"]

AbsentCode(r) == results[r + 1].result_code = "None"

\* the data buffer after the first j bins of the current row, written in
\* order onto mem
RECURSIVE Replay(_, _)
Replay(mem, j) ==
    IF j = 0 THEN mem
    ELSE LET prev == Replay(mem, j - 1)
             k    == field_map_get(bins[j].name)
         IN  IF k = 0 THEN prev
             ELSE write_value_to_buffer(prev, i * row_stride, fields[k], bins[j].value).mem

\* C30: a row without a result code counts as a success: its result-code
\* entry is 0; with a Record its meta slice is the one of a row that differs
\* only by an explicit success code, and its bins are written to its data
\* slice one after the other like those of such a row; the list-based
\* conversion reports 0 for the row as well.
C30_AbsentCodeIsSuccess ==
    /\ (op = "encode" /\ pc # "failed") =>
         /\ \A r \in Entered :
              AbsentCode(r) =>
                /\ RcSlice(r) = CodeBytes(0)
                /\ Filled(r) = results[r + 1].has_record
                /\ \A q \in Entered :
                     results[q + 1] = AsOk(results[r + 1]) =>
                       /\ RcSlice(q) = RcSlice(r)
                       /\ MetaSlice(q) = MetaSlice(r)
         /\ (pc = "bins" /\ br.result_code \in {"None", "Ok"}) =>
              /\ br.has_record
              /\ DataSlice(i) = SubSeq(Replay(Rep(0, Len(data)), Len(bins)),
                                       i * row_stride + 1, (i + 1) * row_stride)
    /\ op = "list" =>
         \A r \in 1..Len(batch_records) :
           results[r].result_code = "None" =>
             /\ batch_records[r] = 0
             /\ batch_records[r] = result_code_to_int("Ok")

\* a record of generation 2 and ttl 100 with the bin a = 300, in a row
\* without a result code and in a row with the code Ok: both rows hold the
\* code 0, the same meta and the same data
C30_Witness ==
    /\ EncodeDone /\ n = 2
    /\ AbsentCode(0) /\ results[1].has_record
    /\ results[2] = AsOk(results[1])
    /\ RcSlice(0) = Rep(0, 4) /\ RcSlice(1) = Rep(0, 4)
    /\ MetaSlice(0) = <<2, 0, 0, 0, 100, 0, 0, 0>>
    /\ MetaSlice(1) = MetaSlice(0)
    /\ DataSlice(0) = <<44, 1, 0, 0>>
    /\ DataSlice(1) = DataSlice(0)

====
